---- MODULE Spec2Model ----
(***************************************************************************)
(* OverPhish background service worker: the domain membership engine.      *)
(* BloomFilter (bloomfilter.js), DomainTrie (trie.js) and the decision,    *)
(* whitelist, allow-once, sync and startup code of background.js.          *)
(*                                                                         *)
(* Strings are sequences of one-character strings, so that the character   *)
(* level operations of the code (split, join, trie walk, charCodeAt) are   *)
(* computed as the code computes them.                                     *)
(***************************************************************************)
EXTENDS Integers, Sequences, FiniteSets, TLC

VARIABLES
    stats,            \* let stats = { blocked, today, blocklistSize, lastUpdate }
    bloom,            \* let bloom: BloomFilter or Null
    trie,             \* let trie: DomainTrie or Null
    DOMAIN_CACHE,     \* Map hostname -> boolean, in insertion order
    cachedWhitelist,  \* let cachedWhitelist: Set or Null
    cachedVersion,    \* let cachedVersion
    whitelistVersion, \* let whitelistVersion
    fetchRetryDelay,  \* let fetchRetryDelay (ms)
    blockMeta,        \* let blockMeta (copy of the meta read by init)
    idb,              \* IndexedDB object store 'blocklist': the set of keys
    local,            \* chrome.storage.local: whitelist, meta, bloomCache, bloomMeta
    session,          \* chrome.storage.session: allow_<hostname> -> expiry
    now,              \* Date.now()
    timers,           \* pending setTimeout(fetchBlocklist(true)) retry timers
    changed,          \* storage.onChanged events for 'whitelist' not yet delivered
    initp,            \* the init() coroutine: pc and locals
    syncs,            \* the fetchBlocklist() coroutines in flight
    query,            \* the isDomainBlocked() coroutine: pc and locals
    mut,              \* the allowOnce / whitelist / removeFromWhitelist handler
    added,            \* the stand-alone filter and the keys added to it
    inserted,         \* the stand-alone trie and the keys inserted into it
    allowedAt,        \* history: when the last allowOnce request for a hostname completed
    wlHist,           \* history: hostnames whose verdict "blocked" was cached, and domains
                      \* whitelisted after that and not looked up since
    syncHist,         \* history: the feed of the last sync that completed on its own, the
                      \* number of failed syncs since the last success
    call,             \* the stand-alone helper call: its arguments and its result
    page              \* the settings page: the whitelist handler in progress there

memVars == <<stats, bloom, trie, DOMAIN_CACHE, cachedWhitelist, cachedVersion,
             whitelistVersion, fetchRetryDelay, blockMeta>>
storeVars == <<idb, local, session>>
envVars == <<now, timers, changed>>
procVars == <<initp, syncs, query, mut>>
histVars == <<added, inserted, call, page, allowedAt, wlHist, syncHist>>
vars == <<memVars, storeVars, envVars, procVars, histVars>>

None == <<>>       \* null / undefined
Some(v) == <<v>>   \* a present value
Get(o) == o[1]

(***************************************************************************)
(* Characters and strings                                                  *)
(***************************************************************************)
Lower == <<"a","b","c","d","e","f","g","h","i","j","k","l","m",
           "n","o","p","q","r","s","t","u","v","w","x","y","z">>
Upper == <<"A","B","C","D","E","F","G","H","I","J","K","L","M",
           "N","O","P","Q","R","S","T","U","V","W","X","Y","Z">>
Digit == <<"0","1","2","3","4","5","6","7","8","9">>

IndexIn(seq, c) == CHOOSE i \in 1..Len(seq) : seq[i] = c
IsIn(seq, c) == \E i \in 1..Len(seq) : seq[i] = c

\* String.prototype.charCodeAt for the characters the model uses
charCodeAt(c) ==
    IF IsIn(Lower, c) THEN 96 + IndexIn(Lower, c)
    ELSE IF IsIn(Upper, c) THEN 64 + IndexIn(Upper, c)
    ELSE IF IsIn(Digit, c) THEN 47 + IndexIn(Digit, c)
    ELSE CASE c = "." -> 46 [] c = "-" -> 45 [] c = "#" -> 35
           [] c = " " -> 32 [] c = ":" -> 58

toLowerCase(s) ==
    [i \in 1..Len(s) |-> IF IsIn(Upper, s[i]) THEN Lower[IndexIn(Upper, s[i])] ELSE s[i]]

RECURSIVE split(_, _)
\* String.prototype.split(sep) for a one-character separator
split(s, sep) ==
    IF \A i \in 1..Len(s) : s[i] # sep THEN <<s>>
    ELSE LET p == CHOOSE i \in 1..Len(s) :
                      s[i] = sep /\ \A j \in 1..(i-1) : s[j] # sep
         IN <<SubSeq(s, 1, p-1)>> \o split(SubSeq(s, p+1, Len(s)), sep)

RECURSIVE join(_, _)
\* Array.prototype.join(sep)
join(parts, sep) ==
    IF Len(parts) = 0 THEN <<>>
    ELSE IF Len(parts) = 1 THEN parts[1]
    ELSE parts[1] \o <<sep>> \o join(Tail(parts), sep)

\* Array.prototype.reverse
reverse(a) == [i \in 1..Len(a) |-> a[Len(a) + 1 - i]]

\* Array.prototype.slice(0, n)
slice0(a, n) == SubSeq(a, 1, IF n < Len(a) THEN n ELSE Len(a))

\* Array.prototype.slice(-n)
sliceLast(a, n) == SubSeq(a, IF Len(a) > n THEN Len(a) - n + 1 ELSE 1, Len(a))

RECURSIVE trim(_)
\* String.prototype.trim (the model's only white space is the blank)
trim(s) ==
    IF Len(s) > 0 /\ s[1] = " " THEN trim(Tail(s))
    ELSE IF Len(s) > 0 /\ s[Len(s)] = " " THEN trim(SubSeq(s, 1, Len(s) - 1))
    ELSE s

startsWith(s, p) == Len(s) >= Len(p) /\ SubSeq(s, 1, Len(p)) = p

Range(f) == {f[i] : i \in DOMAIN f}

\* function reverseDomain(d)
reverseDomain(d) == join(reverse(split(toLowerCase(d), ".")), ".")

(***************************************************************************)
(* The hostnames, feed lines and keys of the model                         *)
(***************************************************************************)
evil_com == <<"e","v","i","l",".","c","o","m">>
sub_evil_com == <<"s","u","b",".","e","v","i","l",".","c","o","m">>
deep_sub_evil_com == <<"d","e","e","p",".","s","u","b",".","e","v","i","l",".","c","o","m">>
evilx_com == <<"e","v","i","l","x",".","c","o","m">>
phish1_com == <<"p","h","i","s","h","1",".","c","o","m">>
sub_phish1_com == <<"s","u","b",".","p","h","i","s","h","1",".","c","o","m">>
phish12_com == <<"p","h","i","s","h","1","2",".","c","o","m">>
phish2_org == <<"p","h","i","s","h","2",".","o","r","g">>
phish3_net == <<"p","h","i","s","h","3",".","n","e","t">>
safe_com == <<"s","a","f","e",".","c","o","m">>
x_com == <<"x",".","c","o","m">>
comment == <<"#","c","o","m","m","e","n","t">>

\* the feed of the end-to-end scenario, "phish1.com\n#comment\nphish2.org\n", as lines
FeedA == <<phish1_com, comment, phish2_org, <<>>>>
\* a later edition of the feed: phish1.com dropped, phish3.net new
FeedB == <<phish2_org, phish3_net>>
Feeds == {FeedA, FeedB}

\* hostnames that are looked up: all of them, those of the policy runs, those of the
\* sync runs
Hosts == {phish1_com, sub_phish1_com, phish12_com, phish2_org, phish3_net, safe_com, x_com}
PolicyHosts == {phish1_com, sub_phish1_com, safe_com}
SyncHosts == {phish1_com, phish12_com, phish3_net}
\* hostnames an allow-once request names, domains a whitelist request names
AllowHosts == {phish1_com}
WhitelistDomains == {phish1_com, x_com}

\* hostnames and keys of the stand-alone trie and filter runs
TrieHosts == {evil_com, sub_evil_com, deep_sub_evil_com, evilx_com,
              phish1_com, phish2_org, safe_com}
TrieKeys == {reverseDomain(h) : h \in TrieHosts}

\* the label prefixes of a reversed hostname: rev.split('.').slice(0, i).join('.')
Suffixes(rev) ==
    LET parts == split(rev, ".")
    IN {join(slice0(parts, i), ".") : i \in 1..Len(parts)}

\* the mutant: comment lines are not dropped
parseLines_KeepsComments(lines) ==
    LET trimmed == [i \in 1..Len(lines) |-> trim(lines[i])]
        keep(l) == l # <<>>
        kept == SelectSeq(trimmed, keep)
    IN [i \in 1..Len(kept) |-> reverseDomain(kept[i])]

\* txt.split('\n').map(l => l.trim()).filter(l => l && !l.startsWith('#')).map(reverseDomain)
parseLines(lines) ==
    LET trimmed == [i \in 1..Len(lines) |-> trim(lines[i])]
        keep(l) == l # <<>> /\ ~startsWith(l, <<"#">>)
        kept == SelectSeq(trimmed, keep)
    IN [i \in 1..Len(kept) |-> reverseDomain(kept[i])]

BloomKeys == TrieKeys \cup UNION {Range(parseLines(f)) : f \in Feeds}
ProbeStrings == UNION {Suffixes(reverseDomain(h)) : h \in Hosts \cup TrieHosts}

(***************************************************************************)
(* 32-bit words as <<high 16 bits, low 16 bits>>: Math.imul, ^, <<, >>>    *)
(***************************************************************************)
\* bitwise exclusive or of two 16-bit numbers
Xor16(a, b) ==
    LET bit(k) == (((a \div k) % 2) + ((b \div k) % 2)) % 2
    IN bit(1) + 2 * bit(2) + 4 * bit(4) + 8 * bit(8) + 16 * bit(16) + 32 * bit(32)
         + 64 * bit(64) + 128 * bit(128) + 256 * bit(256) + 512 * bit(512)
         + 1024 * bit(1024) + 2048 * bit(2048) + 4096 * bit(4096) + 8192 * bit(8192)
         + 16384 * bit(16384) + 32768 * bit(32768)

Xor32(x, y) == <<Xor16(x[1], y[1]), Xor16(x[2], y[2])>>

\* a * b mod 2^16 for a, b < 2^16, without leaving 32-bit integers
MulMod16(a, b) == ((((a \div 256) * b) % 256) * 256 + (a % 256) * b) % 65536

\* Math.imul(x, c)
imul(x, c) ==
    LET p0 == (x[2] % 256) * c[2]
        p1 == (x[2] \div 256) * c[2]
        lowSum == p0 + (p1 % 256) * 256
        high == (lowSum \div 65536) + (p1 \div 256)
                  + MulMod16(x[1], c[2]) + MulMod16(x[2], c[1])
    IN <<high % 65536, lowSum % 65536>>

\* h << 13 | h >>> 19
Rotl13(h) ==
    LET t == (h[1] % 8) * 65536 + h[2]
    IN <<t \div 8, (t % 8) * 8192 + (h[1] \div 8)>>

\* h >>> 16
Shr16(h) == <<0, h[1]>>

\* h >>> 13
Shr13(h) ==
    LET v == h[1] * 8 + (h[2] \div 8192)
    IN <<v \div 65536, v % 65536>>

\* ToInt32(i * 0xf1234567), the seed BloomFilter.add passes for probe i
Seed(i) == imul(<<0, i>>, <<61731, 17767>>)

RECURSIVE HashLoop(_, _, _)
\* the for loop of _hash; h is a 32-bit word, so h[1] >= 0 (the test makes TLC
\* compute h before the next round)
HashLoop(h, str, i) ==
    IF h[1] < 0 \/ i > Len(str) THEN h
    ELSE HashLoop(Rotl13(imul(Xor32(h, <<0, charCodeAt(str[i])>>), <<52382, 11601>>)),
                  str, i + 1)

\* BloomFilter._hash(seed, str)
_hash(seed, str) ==
    LET h0 == HashLoop(Xor32(seed, <<0, Len(str)>>), str, 1)
        h1 == imul(Xor32(h0, Shr16(h0)), <<34283, 51819>>)
        h2 == imul(Xor32(h1, Shr13(h1)), <<49842, 44597>>)
    IN Xor32(h2, Shr16(h2))

\* hash % size for an unsigned 32-bit hash and a small positive size
ModSize(h, size) == ((h[1] % size) * (65536 % size) + (h[2] % size)) % size

(***************************************************************************)
(* bloomfilter.js                                                          *)
(* hashCount is kept as a fraction <<numerator, denominator>>: the code    *)
(* constructs filters with hashCount 7 (default) and with 0.01.            *)
(***************************************************************************)
\* the values of i for which the loop  for (i = 0; i < hashCount; i++)  runs
ProbeIndexes(hashCount) == {i \in 0..hashCount[1] : i * hashCount[2] < hashCount[1]}

\* new BloomFilter(size, hashCount)
BloomFilter(size, hashCount) ==
    [size |-> size, hashCount |-> hashCount, bitArray |-> [j \in 0..(size - 1) |-> 0]]

\* every string the model hashes, and every probe index it uses
HashUniverse == BloomKeys \cup ProbeStrings
HashMemo == [i \in 0..6, s \in HashUniverse |-> _hash(Seed(i), s)]

\* const index = this._hash(i * 0xf1234567, str) % this.size
index(bf, i, str) ==
    ModSize(IF str \in HashUniverse /\ i \in 0..6 THEN HashMemo[i, str]
            ELSE _hash(Seed(i), str), bf.size)

\* the mutant: the probe index is taken one slot further
add_ShiftedIndex(bf, str) ==
    [bf EXCEPT !.bitArray =
        [j \in DOMAIN @ |->
            IF \E i \in ProbeIndexes(bf.hashCount) : (index(bf, i, str) + 1) % bf.size = j
            THEN 1 ELSE @[j]]]

\* BloomFilter.add(str)
add(bf, str) ==
    [bf EXCEPT !.bitArray =
        [j \in DOMAIN @ |->
            IF \E i \in ProbeIndexes(bf.hashCount) : index(bf, i, str) = j
            THEN 1 ELSE @[j]]]

\* BloomFilter.mightContain(str); with size 0 the index is NaN and the slot reads undefined
mightContain(bf, str) ==
    \A i \in ProbeIndexes(bf.hashCount) :
        bf.size > 0 /\ bf.bitArray[index(bf, i, str)] = 1

(***************************************************************************)
(* trie.js: a trie is the set of its nodes, each named by the path (string)*)
(* that leads to it from the root, and the set of nodes with isEnd = true. *)
(***************************************************************************)
\* new DomainTrie()
DomainTrie == [nodes |-> {<<>>}, isEnd |-> {}]

\* DomainTrie.insert(reversedDomain)
insert(t, reversedDomain) ==
    [nodes |-> t.nodes \cup {SubSeq(reversedDomain, 1, n) : n \in 0..Len(reversedDomain)},
     isEnd |-> t.isEnd \cup {reversedDomain}]

RECURSIVE searchFrom(_, _, _)
\* the loop of searchSuffix, the walk being at the node of path SubSeq(s, 1, n)
searchFrom(t, s, n) ==
    IF n = Len(s) THEN SubSeq(s, 1, n) \in t.isEnd
    ELSE IF SubSeq(s, 1, n + 1) \notin t.nodes THEN FALSE
    ELSE IF SubSeq(s, 1, n + 1) \in t.isEnd THEN TRUE
    ELSE searchFrom(t, s, n + 1)

\* the mutant: true only when the whole query is an inserted key
searchSuffix_WholeKey(t, reversedHostname) == reversedHostname \in t.isEnd

\* DomainTrie.searchSuffix(reversedHostname)
searchSuffix(t, reversedHostname) == searchFrom(t, reversedHostname, 0)

(***************************************************************************)
(* background.js: constants                                                *)
(***************************************************************************)
Minute == 60 * 1000
Hour == 60 * Minute
Day == 24 * Hour
MAX_AGE == 6 * 60 * 60 * 1000
MUST_UPDATE_AGE == 7 * 24 * 60 * 60 * 1000
ALLOW_ONCE_TTL == 5 * 60 * 1000
INITIAL_RETRY_DELAY == 5 * 60 * 1000
MAX_RETRY_DELAY == 60 * 60 * 1000
USE_TRIE == TRUE
\* new BloomFilter(domains.length * 2, 0.01): the second argument, as a fraction
BUILD_HASH_COUNT == <<1, 100>>

\* MAX_CACHE (10_000 in the code) and chunkSize (5000 in the code), scaled down
\* so that eviction and multi-batch indexing happen with the model's few names
MAX_CACHE == 2
chunkSize == 1

\* bounds of the exploration
MaxBloomSize == 4       \* sizes of the stand-alone filter
MaxSyncs == 2           \* fetchBlocklist coroutines in flight at once
MaxVersion == 2         \* meta versions written
MaxTimers == 2          \* retry timers pending at once
MaxBoots == 3           \* service worker starts
MaxWlVersion == 2       \* whitelistVersion at which requests stop being issued
MaxWhitelist == 2       \* length of the stored user whitelist
MaxMinutes == 1         \* minute ticks of the clock
MaxTimerMinutes == 10   \* horizon of the clock when it follows the retry timers
MaxHours == 7           \* horizon of the clock when it follows the freshness limit
MaxLabels == 4          \* labels of the hostnames given to getRegistrableDomain alone
MaxCalls == 4   \* ensureReady() calls in one life of the worker
MaxLines == 2           \* lines of a feed as it comes

StartTime == 8 * Day

PERMANENT_WHITELIST ==
    { <<"g","o","o","g","l","e",".","c","o","m">>,
      <<"w","w","w",".","g","o","o","g","l","e",".","c","o","m">>,
      <<"y","o","u","t","u","b","e",".","c","o","m">>,
      <<"w","w","w",".","y","o","u","t","u","b","e",".","c","o","m">>,
      <<"y","o","u","t","u",".","b","e">>,
      <<"g","o","o","g","l","e","a","p","i","s",".","c","o","m">>,
      <<"g","s","t","a","t","i","c",".","c","o","m">>,
      <<"f","a","c","e","b","o","o","k",".","c","o","m">>,
      <<"w","w","w",".","f","a","c","e","b","o","o","k",".","c","o","m">>,
      <<"f","b",".","c","o","m">>,
      <<"w","w","w",".","f","b",".","c","o","m">>,
      <<"i","n","s","t","a","g","r","a","m",".","c","o","m">>,
      <<"w","w","w",".","i","n","s","t","a","g","r","a","m",".","c","o","m">>,
      <<"w","h","a","t","s","a","p","p",".","c","o","m">>,
      <<"w","w","w",".","w","h","a","t","s","a","p","p",".","c","o","m">>,
      <<"t","w","i","t","t","e","r",".","c","o","m">>,
      <<"w","w","w",".","t","w","i","t","t","e","r",".","c","o","m">>,
      <<"x",".","c","o","m">>,
      <<"w","w","w",".","x",".","c","o","m">>,
      <<"m","i","c","r","o","s","o","f","t",".","c","o","m">>,
      <<"w","w","w",".","m","i","c","r","o","s","o","f","t",".","c","o","m">>,
      <<"l","i","v","e",".","c","o","m">>,
      <<"o","u","t","l","o","o","k",".","l","i","v","e",".","c","o","m">>,
      <<"o","u","t","l","o","o","k",".","c","o","m">>,
      <<"a","p","p","l","e",".","c","o","m">>,
      <<"w","w","w",".","a","p","p","l","e",".","c","o","m">>,
      <<"i","c","l","o","u","d",".","c","o","m">>,
      <<"a","m","a","z","o","n",".","c","o","m">>,
      <<"w","w","w",".","a","m","a","z","o","n",".","c","o","m">>,
      <<"g","i","t","h","u","b",".","c","o","m">>,
      <<"w","w","w",".","g","i","t","h","u","b",".","c","o","m">>,
      <<"g","i","t","h","u","b","u","s","e","r","c","o","n","t","e","n","t",".","c","o","m">>,
      <<"l","o","c","a","l","h","o","s","t">>,
      <<"1","2","7",".","0",".","0",".","1">>,
      <<":",":","1">>,
      <<"c","l","o","u","d","f","l","a","r","e",".","c","o","m">>,
      <<"c","l","o","u","d","f","l","a","r","e",".","n","e","t">>,
      <<"a","k","a","m","a","i",".","n","e","t">>,
      <<"a","k","a","m","a","i","z","e","d",".","n","e","t">>,
      <<"f","a","s","t","l","y",".","n","e","t">> }

COMMON_TLDS ==
    { <<"c","o","m">>,
      <<"o","r","g">>,
      <<"n","e","t">>,
      <<"c","o",".","u","k">>,
      <<"d","e">>,
      <<"r","u">>,
      <<"c","n">>,
      <<"x","y","z">>,
      <<"t","o","p">>,
      <<"i","n","f","o">>,
      <<"c","l","u","b">>,
      <<"o","n","l","i","n","e">>,
      <<"s","h","o","p">>,
      <<"s","i","t","e">>,
      <<"s","t","o","r","e">>,
      <<"t","e","c","h">>,
      <<"l","i","v","e">>,
      <<"a","p","p">> }

(***************************************************************************)
(* background.js: helpers                                                  *)
(***************************************************************************)
IsDigits(s) == Len(s) \in 1..3 /\ \A i \in 1..Len(s) : IsIn(Digit, s[i])

\* /^(?:\d{1,3}\.){3}\d{1,3}$/.test(hostname)
IsIPv4(hostname) ==
    LET parts == split(hostname, ".")
    IN Len(parts) = 4 /\ \A i \in 1..4 : IsDigits(parts[i])

RECURSIVE stripLeadingDots(_)
\* hostname.replace(/^\.+/, '')
stripLeadingDots(s) == IF Len(s) > 0 /\ s[1] = "." THEN stripLeadingDots(Tail(s)) ELSE s

\* the mutant: the set of public suffixes is not consulted
getRegistrableDomain_TwoLabels(hostname) ==
    IF hostname = <<>> \/ IsIPv4(hostname) THEN hostname
    ELSE LET h == stripLeadingDots(toLowerCase(hostname))
             parts == split(h, ".")
         IN IF Len(parts) <= 2 THEN h ELSE join(sliceLast(parts, 2), ".")

\* function getRegistrableDomain(hostname)
getRegistrableDomain(hostname) ==
    IF hostname = <<>> \/ IsIPv4(hostname) THEN hostname
    ELSE LET h == stripLeadingDots(toLowerCase(hostname))
             parts == split(h, ".")
             tld == sliceLast(parts, 1)[1]
             sld == sliceLast(parts, 2)[1]
         IN IF ~IsIn(h, ".") THEN h
            ELSE IF Len(parts) <= 2 THEN h
            ELSE IF (sld \o <<".">> \o tld) \in COMMON_TLDS
                 THEN join(sliceLast(parts, 3), ".")
            ELSE sld \o <<".">> \o tld

\* DOMAIN_CACHE: a Map, kept as the sequence of its entries in insertion order
CacheKeys(cache) == {cache[i].k : i \in 1..Len(cache)}
CacheGet(cache, key) == cache[CHOOSE i \in 1..Len(cache) : cache[i].k = key].v
\* Map.prototype.set: an existing key keeps its place
MapSet(cache, key, value) ==
    IF key \in CacheKeys(cache)
    THEN [i \in 1..Len(cache) |-> IF cache[i].k = key THEN [k |-> key, v |-> value] ELSE cache[i]]
    ELSE Append(cache, [k |-> key, v |-> value])
\* Map.prototype.delete
MapDelete(cache, key) == LET keep(e) == e.k # key IN SelectSeq(cache, keep)

\* the mutant: nothing is evicted
cacheSet_NoEviction(cache, key, value) == MapSet(cache, key, value)

\* function cacheSet(key, value)
cacheSet(cache, key, value) ==
    MapSet(IF Len(cache) >= MAX_CACHE THEN Tail(cache) ELSE cache, key, value)

\* new Set([...PERMANENT_WHITELIST, ...whitelist])
FullWhitelist(whitelist) == PERMANENT_WHITELIST \cup Range(whitelist)

\* reverseDomain, getRegistrableDomain and the label prefixes of the hostnames that
\* are looked up, computed once
HostMemo ==
    [h \in Hosts |-> [rev |-> reverseDomain(h),
                      reg |-> getRegistrableDomain(h),
                      suffixes |-> Suffixes(reverseDomain(h))]]
Rev(h) == IF h \in Hosts THEN HostMemo[h].rev ELSE reverseDomain(h)
Reg(h) == IF h \in Hosts THEN HostMemo[h].reg ELSE getRegistrableDomain(h)
SuffixesOf(h) == IF h \in Hosts THEN HostMemo[h].suffixes ELSE Suffixes(reverseDomain(h))

\* slowCheck(rev): store.get(suffix) for every label prefix of rev
slowCheck(store, suffixes) == \E s \in suffixes : s \in store

\* the Bloom loop of isDomainBlocked: bloom?.mightContain(suffix) for some label prefix
might(bf, suffixes) == bf # None /\ \E s \in suffixes : mightContain(Get(bf), s)

(***************************************************************************)
(* The state at a service worker start                                     *)
(***************************************************************************)
NoMeta == [size |-> 0, lastUpdate |-> 0, version |-> 0]
\* what a fetchBlocklist run found when it started: the store, the sizes, the trie
\* (auxiliary)
NoPre == [idb |-> {}, size |-> 0, metaSize |-> 0, trie |-> None]
\* pc, force, awaited, now, savedMeta, domains, i: the locals of the run;
\* prev, pre (auxiliary): when the run started after init, with no other run in flight,
\* right after a sync that had completed on its own, the feed of that sync and
\* what the run found; dropped when another run starts meanwhile
IdleSync == [pc |-> "free", force |-> FALSE, awaited |-> FALSE, now |-> 0,
             savedMeta |-> NoMeta, domains |-> <<>>, i |-> 0,
             prev |-> None, pre |-> NoPre]
\* domains: the feed of the last sync, if no run has written the store since and none
\* overlapped it; dirty: the runs in flight overlap; repeat: the last sync was the
\* second of two syncs of one feed; fails: failed syncs since the last success
NoSyncHistory == [domains |-> None, dirty |-> FALSE, repeat |-> FALSE, fails |-> 0]
\* host, wl, res: the locals of the call; live, listed, readded: what held when the
\* call started (an allow-once override in force, the hostname whitelisted, the
\* hostname whitelisted after a cached "blocked")
IdleQuery == [pc |-> "idle", host |-> <<>>, wl |-> <<>>, res |-> FALSE, live |-> FALSE,
              listed |-> FALSE, readded |-> FALSE]
\* action, arg, wl: the locals of the handler; before: the cache entries at its start
IdleMut == [pc |-> "idle", action |-> "none", arg |-> <<>>, wl |-> <<>>, before |-> {}]
NoHistory == [cachedTrue |-> {}, added |-> {}]
\* settings.js: action, arg, wl: the locals of the add, remove or import handler
IdlePage == [pc |-> "idle", action |-> "none", arg |-> <<>>, wl |-> <<>>]

\* the module-level "let" declarations of background.js
MemoryAtLoad ==
    /\ stats = [blocklistSize |-> 0, lastUpdate |-> 0]
    /\ bloom = None
    /\ trie = None
    /\ DOMAIN_CACHE = <<>>
    /\ cachedWhitelist = None
    /\ cachedVersion = -1
    /\ whitelistVersion = 0
    /\ fetchRetryDelay = INITIAL_RETRY_DELAY
    /\ blockMeta = NoMeta

\* a fresh profile: nothing stored yet
StorageAtInstall ==
    /\ idb = {}
    /\ local = [whitelist |-> <<>>, meta |-> None, bloomCache |-> None, bloomMeta |-> None]
    /\ session = [h \in AllowHosts |-> 0]

ProcessesAtLoad ==
    /\ initp = [pc |-> "boot", restored |-> FALSE, boots |-> 1,
                isInitializing |-> TRUE, inits |-> 1, calls |-> 1]
    /\ syncs = [s \in 1..MaxSyncs |-> IdleSync]
    /\ query = IdleQuery
    /\ mut = IdleMut

Init ==
    /\ MemoryAtLoad
    /\ StorageAtInstall
    /\ ProcessesAtLoad
    /\ now = StartTime
    /\ timers = <<>>
    /\ changed = 0
    /\ added = {}
    /\ inserted = {}
    /\ allowedAt = [h \in AllowHosts |-> 0]
    /\ wlHist = NoHistory
    /\ syncHist = NoSyncHistory /\ call = None /\ page = IdlePage

(***************************************************************************)
(* fetchBlocklist(force)                                                   *)
(***************************************************************************)
FreeSlots == {s \in 1..MaxSyncs : syncs[s].pc = "free"}
Running == {s \in 1..MaxSyncs : syncs[s].pc # "free"}

\* the mutant: a list that is exactly MAX_AGE old still counts as fresh
fetchBlocklist_LateThreshold(force, awaited) ==
    LET savedMeta == IF local.meta = None THEN NoMeta ELSE Get(local.meta)
        mustUpdate == now - savedMeta.lastUpdate > MUST_UPDATE_AGE
    IN IF ~force /\ ~mustUpdate /\ savedMeta.size > 0 /\ now - savedMeta.lastUpdate <= MAX_AGE
       THEN /\ stats' = [stats EXCEPT !.blocklistSize = savedMeta.size,
                                      !.lastUpdate = savedMeta.lastUpdate]
            /\ UNCHANGED <<syncs, syncHist>>
       ELSE /\ FreeSlots # {}
            /\ savedMeta.version < MaxVersion
            /\ LET s == CHOOSE x \in FreeSlots : \A y \in FreeSlots : x <= y
               IN syncs' = [syncs EXCEPT ![s] =
                               [pc |-> "download", force |-> force, awaited |-> awaited,
                                now |-> now, savedMeta |-> savedMeta, domains |-> <<>>,
                                i |-> 0, prev |-> None, pre |-> NoPre]]
            /\ syncHist' = [syncHist EXCEPT !.dirty = Running # {}]
            /\ UNCHANGED stats

\* lines 383-398: read the meta record, return at once when the list is fresh
fetchBlocklist(force, awaited) ==
    LET savedMeta == IF local.meta = None THEN NoMeta ELSE Get(local.meta)
        mustUpdate == now - savedMeta.lastUpdate > MUST_UPDATE_AGE
        after == Running = {} /\ initp.pc = "ready" /\ syncHist.domains # None
    IN IF ~force /\ ~mustUpdate /\ savedMeta.size > 0 /\ now - savedMeta.lastUpdate < MAX_AGE
       THEN /\ stats' = [stats EXCEPT !.blocklistSize = savedMeta.size,
                                      !.lastUpdate = savedMeta.lastUpdate]
            /\ UNCHANGED <<syncs, syncHist>>
       ELSE /\ FreeSlots # {}
            /\ savedMeta.version < MaxVersion
            /\ LET s == CHOOSE x \in FreeSlots : \A y \in FreeSlots : x <= y
               IN syncs' = [x \in 1..MaxSyncs |->
                      IF x = s
                      THEN [pc |-> "download", force |-> force, awaited |-> awaited,
                            now |-> now, savedMeta |-> savedMeta, domains |-> <<>>, i |-> 0,
                            prev |-> IF after THEN syncHist.domains ELSE None,
                            pre |-> IF after
                                    THEN [idb |-> idb, size |-> stats.blocklistSize,
                                          metaSize |-> savedMeta.size, trie |-> trie]
                                    ELSE NoPre]
                      ELSE [syncs[x] EXCEPT !.prev = None, !.pre = NoPre]]
            /\ syncHist' = [syncHist EXCEPT !.dirty = Running # {}]
            /\ UNCHANGED stats

\* lines 400-424: the response arrived and was parsed
FetchOk(s) ==
    /\ syncs[s].pc = "download"
    /\ \E feed \in Feeds :
          syncs' = [syncs EXCEPT ![s].pc = "clear", ![s].domains = parseLines(feed)]
    /\ UNCHANGED <<memVars, storeVars, envVars, initp, query, mut, histVars>>

\* feed lines as they come: padded, in capitals, with a leading "www.", commented out,
\* empty
RawLines ==
    {phish1_com, <<" ", "P", "h", "i", "s", "h", "2", ".", "O", "R", "G", " ">>,
     <<"S", "u", "b", ".", "p", "h", "i", "s", "h", "1", ".", "c", "o", "m">>,
     <<"w", "w", "w", ".", "p", "h", "i", "s", "h", "3", ".", "n", "e", "t">>,
     comment, <<" ", "#", "x", ".", "c", "o", "m">>, <<>>, <<" ", " ">>}
RawFeeds == UNION {[1..n -> RawLines] : n \in 1..MaxLines}

\* lines 400-424 on such a feed; the text downloaded and the store it is to replace are
\* remembered
FetchRaw(s) ==
    /\ syncs[s].pc = "download"
    /\ \E feed \in RawFeeds :
          /\ syncs' = [syncs EXCEPT ![s].pc = "clear", ![s].domains = parseLines(feed)]
          /\ call' = Some([text |-> feed, store |-> idb])
    /\ UNCHANGED <<memVars, storeVars, envVars, initp, query, mut, added, inserted, page,
                   allowedAt, wlHist, syncHist>>

\* the pending timers are kept ordered by due time
SortedInsert(ts, t) ==
    LET before(x) == x <= t
        after(x) == x > t
    IN SelectSeq(ts, before) \o <<t>> \o SelectSeq(ts, after)

\* the mutant: the store is cleared before the download is known to have succeeded
FetchFail_ClearsStore(s) ==
    /\ syncs[s].pc = "download"
    /\ Len(timers) < MaxTimers
    /\ LET delay == IF fetchRetryDelay * 2 < MAX_RETRY_DELAY
                    THEN fetchRetryDelay * 2 ELSE MAX_RETRY_DELAY
       IN /\ fetchRetryDelay' = delay
          /\ timers' = SortedInsert(timers, now + delay)
    /\ idb' = {}
    /\ syncs' = [syncs EXCEPT ![s] = IdleSync]
    /\ syncHist' = [syncHist EXCEPT !.fails = @ + 1]
    /\ UNCHANGED <<stats, bloom, trie, DOMAIN_CACHE, cachedWhitelist, cachedVersion,
                   whitelistVersion, blockMeta, local, session, now, changed, initp, query,
                   mut, added, inserted, call, page, allowedAt, wlHist>>

\* lines 451-457: fetch rejected or !response.ok; the catch block schedules the retry
FetchFail(s) ==
    /\ syncs[s].pc = "download"
    /\ Len(timers) < MaxTimers
    /\ LET delay == IF fetchRetryDelay * 2 < MAX_RETRY_DELAY
                    THEN fetchRetryDelay * 2 ELSE MAX_RETRY_DELAY
       IN /\ fetchRetryDelay' = delay
          /\ timers' = SortedInsert(timers, now + delay)
    /\ syncs' = [syncs EXCEPT ![s] = IdleSync]
    /\ syncHist' = [syncHist EXCEPT !.fails = @ + 1]
    /\ UNCHANGED <<stats, bloom, trie, DOMAIN_CACHE, cachedWhitelist, cachedVersion,
                   whitelistVersion, blockMeta, storeVars, now, changed, initp, query,
                   mut, added, inserted, call, page, allowedAt, wlHist>>

\* line 428: await clearDB()
ClearDB(s) ==
    /\ syncs[s].pc = "clear"
    /\ idb' = {}
    /\ syncs' = [syncs EXCEPT ![s].pc = IF Len(syncs[s].domains) > 0 THEN "batch" ELSE "meta",
                              ![s].i = 0]
    /\ syncHist' = [syncHist EXCEPT !.domains = None, !.repeat = FALSE]
    /\ UNCHANGED <<memVars, local, session, envVars, initp, query, mut, added, inserted, call, page,
                   allowedAt, wlHist>>

\* lines 430-433: await addDomains(domains.slice(i, i + chunkSize))
AddDomains(s) ==
    /\ syncs[s].pc = "batch"
    /\ LET d == syncs[s].domains
           i == syncs[s].i
           hi == IF i + chunkSize < Len(d) THEN i + chunkSize ELSE Len(d)
       IN /\ idb' = idb \cup {d[j] : j \in (i + 1)..hi}
          /\ syncs' = [syncs EXCEPT ![s].i = i + chunkSize,
                                    ![s].pc = IF i + chunkSize < Len(d) THEN "batch" ELSE "meta"]
    /\ UNCHANGED <<memVars, local, session, envVars, initp, query, mut, histVars>>

\* lines 251-272: the transaction of clearDB() or addDomains() fails (an error or an
\* abort, e.g. the quota is exceeded): nothing is written, and the promise, which is
\* settled by tx.oncomplete alone, stays pending
TxFail(s) ==
    /\ syncs[s].pc \in {"clear", "batch"}
    /\ syncs' = [syncs EXCEPT ![s].pc = "failed"]
    /\ UNCHANGED <<memVars, storeVars, envVars, initp, query, mut, histVars>>

\* lines 435-441: the new meta record is written
WriteMeta(s) ==
    /\ syncs[s].pc = "meta"
    /\ local' = [local EXCEPT !.meta = Some([size |-> Len(syncs[s].domains),
                                             lastUpdate |-> syncs[s].now,
                                             version |-> syncs[s].savedMeta.version + 1])]
    /\ syncs' = [syncs EXCEPT ![s].pc = "finish"]
    /\ UNCHANGED <<memVars, idb, session, envVars, initp, query, mut, histVars>>

\* run s is the second of two syncs of one feed, run one after the other with the
\* structures in place (auxiliary)
Repeated(s) == syncs[s].prev = Some(syncs[s].domains)

\* the mutant: the size is added to the running count instead of replacing it
FinishSync_AddsSize(s) ==
    /\ syncs[s].pc = "finish"
    /\ local' = [local EXCEPT !.bloomCache = None, !.bloomMeta = None]
    /\ stats' = [stats EXCEPT !.blocklistSize = @ + Len(syncs[s].domains),
                              !.lastUpdate = syncs[s].now]
    /\ syncs' = [syncs EXCEPT ![s] = IdleSync]
    /\ syncHist' = [domains |-> IF syncHist.dirty THEN None ELSE Some(syncs[s].domains),
                    dirty |-> syncHist.dirty,
                    repeat |-> Repeated(s),
                    fails |-> 0]
    /\ UNCHANGED <<bloom, trie, DOMAIN_CACHE, cachedWhitelist, cachedVersion,
                   whitelistVersion, fetchRetryDelay, blockMeta, idb, session, envVars,
                   initp, query, mut, added, inserted, call, page, allowedAt, wlHist>>

\* lines 443-450 and the finally block: drop the persisted filter, publish the stats
FinishSync(s) ==
    /\ syncs[s].pc = "finish"
    /\ local' = [local EXCEPT !.bloomCache = None, !.bloomMeta = None]
    /\ stats' = [stats EXCEPT !.blocklistSize = Len(syncs[s].domains),
                              !.lastUpdate = syncs[s].now]
    /\ syncs' = [syncs EXCEPT ![s] = IdleSync]
    /\ syncHist' = [domains |-> IF syncHist.dirty THEN None ELSE Some(syncs[s].domains),
                    dirty |-> syncHist.dirty,
                    repeat |-> Repeated(s),
                    fails |-> 0]
    /\ UNCHANGED <<bloom, trie, DOMAIN_CACHE, cachedWhitelist, cachedVersion,
                   whitelistVersion, fetchRetryDelay, blockMeta, idb, session, envVars,
                   initp, query, mut, added, inserted, call, page, allowedAt, wlHist>>

\* chrome.alarms 'checkBlocklistUpdate' -> fetchBlocklist(false)  (lines 772-778)
Alarm ==
    /\ initp.pc = "ready"
    /\ fetchBlocklist(FALSE, FALSE)
    /\ UNCHANGED <<bloom, trie, DOMAIN_CACHE, cachedWhitelist, cachedVersion,
                   whitelistVersion, fetchRetryDelay, blockMeta, storeVars, envVars,
                   initp, query, mut, added, inserted, call, page,
                   allowedAt, wlHist>>

\* onMessage 'refreshBlocklist' -> fetchBlocklist(true)  (lines 681-685); the handler
\* does not wait for init, the message is taken to arrive once openDB has resolved
RefreshBlocklist ==
    /\ initp.pc # "boot"
    /\ fetchBlocklist(TRUE, FALSE)
    /\ UNCHANGED <<bloom, trie, DOMAIN_CACHE, cachedWhitelist, cachedVersion,
                   whitelistVersion, fetchRetryDelay, blockMeta, storeVars, envVars,
                   initp, query, mut, added, inserted, call, page,
                   allowedAt, wlHist>>

\* the retry timer set by the catch block fires -> fetchBlocklist(true)  (line 454)
RetryTimer ==
    /\ \E n \in 1..Len(timers) :
          /\ timers[n] <= now
          /\ timers' = [j \in 1..(Len(timers) - 1) |-> IF j < n THEN timers[j] ELSE timers[j + 1]]
    /\ fetchBlocklist(TRUE, FALSE)
    /\ UNCHANGED <<bloom, trie, DOMAIN_CACHE, cachedWhitelist, cachedVersion,
                   whitelistVersion, fetchRetryDelay, blockMeta, storeVars, now, changed,
                   initp, query, mut, added, inserted, call, page,
                   allowedAt, wlHist>>

(***************************************************************************)
(* buildFastStructures() and init()                                        *)
(***************************************************************************)
RECURSIVE addAll(_, _)
\* domains.forEach(d => bloom.add(d))
addAll(bf, keys) ==
    IF keys = {} THEN bf
    ELSE LET k == CHOOSE x \in keys : TRUE IN addAll(add(bf, k), keys \ {k})

RECURSIVE insertAll(_, _)
\* domains.forEach(d => trie.insert(d))
insertAll(t, keys) ==
    IF keys = {} THEN t
    ELSE LET k == CHOOSE x \in keys : TRUE IN insertAll(insert(t, k), keys \ {k})

\* lines 479-481
BuildBloom(domains) == addAll(BloomFilter(Cardinality(domains) * 2, BUILD_HASH_COUNT), domains)
\* lines 484-487
BuildTrie(domains) == insertAll(DomainTrie, domains)

\* lines 492-496: bloomData; Array.from(bloom.bitArray) is the array of the slots
bloomData(bf) ==
    [bitArray |-> [k \in 1..bf.size |-> bf.bitArray[k - 1]],
     size |-> bf.size,
     hashCount |-> bf.hashCount]

\* the mutant: the saved slots are not put back
restoreBloom_Empty(bloomSaved) == BloomFilter(bloomSaved.size, bloomSaved.hashCount)

\* lines 724-725: new BloomFilter(size, hashCount), then bitArray = new Uint8Array(saved)
restoreBloom(bloomSaved) ==
    [BloomFilter(bloomSaved.size, bloomSaved.hashCount) EXCEPT
        !.bitArray = [j \in 0..(Len(bloomSaved.bitArray) - 1) |->
                         bloomSaved.bitArray[j + 1] % 256]]

\* lines 700-731: openDB, then the attempt to restore the persisted filter
InitOpen ==
    /\ initp.pc = "boot"
    /\ LET bm == IF local.meta = None THEN NoMeta ELSE Get(local.meta)
           ok == /\ local.bloomCache # None
                 /\ local.bloomMeta # None
                 /\ Get(local.bloomMeta).version = bm.version
                 /\ Get(local.bloomMeta).domainCount = bm.size
       IN /\ blockMeta' = bm
          /\ bloom' = IF ok THEN Some(restoreBloom(Get(local.bloomCache))) ELSE bloom
          /\ initp' = [initp EXCEPT !.pc = "check", !.restored = ok]
    /\ UNCHANGED <<stats, trie, DOMAIN_CACHE, cachedWhitelist, cachedVersion,
                   whitelistVersion, fetchRetryDelay, storeVars, envVars, syncs, query,
                   mut, histVars>>

\* the mutant: only an empty store forces the download
InitCheck_EmptyOnly ==
    /\ initp.pc = "check"
    /\ LET savedMeta == IF local.meta = None THEN NoMeta ELSE Get(local.meta)
           dbCount == Cardinality(idb)
       IN IF dbCount = 0
          THEN /\ fetchBlocklist(TRUE, TRUE)
               /\ initp' = [initp EXCEPT !.pc = "fetch"]
          ELSE /\ stats' = [stats EXCEPT !.blocklistSize = savedMeta.size,
                                         !.lastUpdate = savedMeta.lastUpdate]
               /\ initp' = [initp EXCEPT !.pc = IF initp.restored THEN "finish" ELSE "build"]
               /\ UNCHANGED <<syncs, syncHist>>
    /\ UNCHANGED <<bloom, trie, DOMAIN_CACHE, cachedWhitelist, cachedVersion,
                   whitelistVersion, fetchRetryDelay, blockMeta, storeVars, envVars, query,
                   mut, added, inserted, call, page, allowedAt, wlHist>>

\* lines 733-751: compare the store's count with the recorded size
InitCheck ==
    /\ initp.pc = "check"
    /\ LET savedMeta == IF local.meta = None THEN NoMeta ELSE Get(local.meta)
           dbCount == Cardinality(idb)
       IN IF dbCount = 0 \/ dbCount # savedMeta.size
          THEN /\ fetchBlocklist(TRUE, TRUE)
               /\ initp' = [initp EXCEPT !.pc = "fetch"]
          ELSE /\ stats' = [stats EXCEPT !.blocklistSize = savedMeta.size,
                                         !.lastUpdate = savedMeta.lastUpdate]
               /\ initp' = [initp EXCEPT !.pc = IF initp.restored THEN "finish" ELSE "build"]
               /\ UNCHANGED <<syncs, syncHist>>
    /\ UNCHANGED <<bloom, trie, DOMAIN_CACHE, cachedWhitelist, cachedVersion,
                   whitelistVersion, fetchRetryDelay, blockMeta, storeVars, envVars, query,
                   mut, added, inserted, call, page, allowedAt, wlHist>>

\* line 744: await fetchBlocklist(true) has returned
InitFetched ==
    /\ initp.pc = "fetch"
    /\ \A s \in 1..MaxSyncs : ~syncs[s].awaited
    /\ initp' = [initp EXCEPT !.pc = IF initp.restored THEN "finish" ELSE "build"]
    /\ UNCHANGED <<memVars, storeVars, envVars, syncs, query, mut, histVars>>

\* lines 464-487: the cursor scan, then the filter and the trie in one synchronous run
buildFastStructures ==
    /\ initp.pc = "build"
    /\ bloom' = Some(BuildBloom(idb))
    /\ trie' = IF USE_TRIE THEN Some(BuildTrie(idb)) ELSE trie
    /\ initp' = [initp EXCEPT !.pc = "persist"]
    /\ UNCHANGED <<stats, DOMAIN_CACHE, cachedWhitelist, cachedVersion, whitelistVersion,
                   fetchRetryDelay, blockMeta, storeVars, envVars, syncs, query, mut,
                   histVars>>

\* lines 491-507: the filter is persisted with its meta record
PersistBloom ==
    /\ initp.pc = "persist"
    /\ local' = [local EXCEPT
                   !.bloomCache = Some(bloomData(Get(bloom))),
                   !.bloomMeta = Some([version |-> blockMeta.version,
                                       timestamp |-> now,
                                       domainCount |-> stats.blocklistSize])]
    /\ initp' = [initp EXCEPT !.pc = "finish"]
    /\ UNCHANGED <<memVars, idb, session, envVars, syncs, query, mut, histVars>>

\* lines 759-780: the alarm is registered; ensureReady() resolves
InitDone ==
    /\ initp.pc = "finish"
    /\ initp' = [initp EXCEPT !.pc = "ready"]
    /\ UNCHANGED <<memVars, storeVars, envVars, syncs, query, mut, histVars>>

(***************************************************************************)
(* ensureReady() and its callers                                           *)
(***************************************************************************)
\* the mutant: every call starts init() again
ensureReady_NoMemo(p) ==
    [p EXCEPT !.isInitializing = TRUE, !.inits = @ + 1, !.calls = @ + 1,
              !.pc = "boot", !.restored = FALSE]

\* lines 118-122 on the record of the init coroutine: isInitializing is the promise of
\* the one init() run (lines 785-787 have set it at load), inits counts the init() runs
\* started in this life of the worker and calls the ensureReady() calls
ensureReady(p) ==
    IF p.isInitializing
    THEN [p EXCEPT !.calls = @ + 1]
    ELSE [p EXCEPT !.isInitializing = TRUE, !.inits = @ + 1, !.calls = @ + 1,
                   !.pc = "boot", !.restored = FALSE]

\* lines 783-784: onInstalled or onStartup
OnInstalled ==
    /\ initp.calls < MaxCalls
    /\ initp' = ensureReady(initp)
    /\ UNCHANGED <<memVars, storeVars, envVars, syncs, query, mut, histVars>>

\* lines 521-522 and 600-602: a navigation or a checkDomains message calls
\* ensureReady() and waits for its promise
OnBeforeNavigate(hostname) ==
    /\ query.pc \in {"idle", "done"}
    /\ initp.calls < MaxCalls
    /\ initp' = ensureReady(initp)
    /\ query' = [IdleQuery EXCEPT !.pc = "await", !.host = hostname]
    /\ UNCHANGED <<memVars, storeVars, envVars, syncs, mut, histVars>>

\* the browser stops the idle service worker and starts it again: the globals are
\* re-initialised, the coroutines and timers are gone, the storage areas remain
Restart ==
    /\ initp.boots < MaxBoots
    /\ stats' = [blocklistSize |-> 0, lastUpdate |-> 0]
    /\ bloom' = None
    /\ trie' = None
    /\ DOMAIN_CACHE' = <<>>
    /\ cachedWhitelist' = None
    /\ cachedVersion' = -1
    /\ whitelistVersion' = 0
    /\ fetchRetryDelay' = INITIAL_RETRY_DELAY
    /\ blockMeta' = NoMeta
    /\ initp' = [pc |-> "boot", restored |-> FALSE, boots |-> initp.boots + 1,
                 isInitializing |-> TRUE, inits |-> 1, calls |-> 1]
    /\ syncs' = [s \in 1..MaxSyncs |-> IdleSync]
    /\ query' = IdleQuery
    /\ mut' = IdleMut
    /\ timers' = <<>>
    /\ changed' = 0
    /\ UNCHANGED <<storeVars, now, histVars>>

(***************************************************************************)
(* isDomainBlocked(hostname), called by onBeforeNavigate and checkDomains  *)
(* after await ensureReady()                                               *)
(***************************************************************************)
\* lines 290-328 as a function of what the call reads: the session entry of the
\* hostname, the clock, the full whitelist, the verdict cache, the filter, the trie and
\* the store
verdict(hostname, sess, t, wl, cache, bf, tr, store) ==
    LET allowUntil == IF hostname \in DOMAIN sess THEN sess[hostname] ELSE 0
        reg == Reg(hostname)
    IN IF allowUntil # 0 /\ t < allowUntil THEN FALSE
       ELSE IF hostname \in wl \/ (reg # <<>> /\ reg \in wl) THEN FALSE
       ELSE IF hostname \in CacheKeys(cache) THEN CacheGet(cache, hostname)
       ELSE IF ~might(bf, SuffixesOf(hostname)) THEN FALSE
       ELSE IF USE_TRIE /\ tr # None THEN searchSuffix(Get(tr), Rev(hostname))
       ELSE slowCheck(store, SuffixesOf(hostname))

\* lines 304-328: from the whitelist test to the return, one synchronous run unless
\* the exact check has to wait for slowCheck
Decide(hostname, wl) ==
    LET reg == Reg(hostname)
        rev == Rev(hostname)
    IN IF hostname \in wl \/ (reg # <<>> /\ reg \in wl)
       THEN [pc |-> "done", res |-> FALSE, cache |-> cacheSet(DOMAIN_CACHE, hostname, FALSE)]
       ELSE IF hostname \in CacheKeys(DOMAIN_CACHE)
       THEN [pc |-> "done", res |-> CacheGet(DOMAIN_CACHE, hostname), cache |-> DOMAIN_CACHE]
       ELSE IF ~might(bloom, SuffixesOf(hostname))
       THEN [pc |-> "done", res |-> FALSE, cache |-> cacheSet(DOMAIN_CACHE, hostname, FALSE)]
       ELSE IF USE_TRIE /\ trie # None
       THEN [pc |-> "done", res |-> searchSuffix(Get(trie), rev),
             cache |-> cacheSet(DOMAIN_CACHE, hostname, searchSuffix(Get(trie), rev))]
       ELSE [pc |-> "slow", res |-> FALSE, cache |-> DOMAIN_CACHE]

\* lines 302-303 and getFullWhitelist (214-220): a valid snapshot is used at once,
\* otherwise the stored whitelist is read and the coroutine waits for the answer
WhitelistStage(q) ==
    IF cachedWhitelist # None /\ cachedVersion = whitelistVersion
    THEN LET d == Decide(q.host, Get(cachedWhitelist))
         IN /\ query' = [q EXCEPT !.pc = d.pc, !.res = d.res]
            /\ DOMAIN_CACHE' = d.cache
    ELSE /\ query' = [q EXCEPT !.pc = "wl", !.wl = local.whitelist]
         /\ UNCHANGED DOMAIN_CACHE

\* history: the call that ended with the record q has cached the verdict "blocked"
NoteVerdict(q, cache, hist) ==
    IF /\ q.pc = "done" /\ q.res /\ q.host \in WhitelistDomains
       /\ q.host \in CacheKeys(cache) /\ CacheGet(cache, q.host)
    THEN [hist EXCEPT !.cachedTrue = @ \cup {q.host}]
    ELSE hist

\* the hostname or its registrable domain is in the stored whitelist or the built-in one
Whitelisted(hostname, whitelist) ==
    \/ hostname \in FullWhitelist(whitelist)
    \/ Reg(hostname) # <<>> /\ Reg(hostname) \in FullWhitelist(whitelist)

\* the mutant: the answer a live override gives is put into the verdict cache
IsDomainBlocked_CachesOverride(hostname) ==
    /\ initp.pc = "ready"
    /\ \/ query.pc \in {"idle", "done"}
       \/ query.pc = "await" /\ query.host = hostname
    /\ LET allowUntil == IF hostname \in DOMAIN session THEN session[hostname] ELSE 0
           q == [IdleQuery EXCEPT
                   !.host = hostname,
                   !.live = /\ hostname \in DOMAIN allowedAt
                            /\ allowedAt[hostname] # 0
                            /\ now < allowedAt[hostname] + ALLOW_ONCE_TTL,
                   !.listed = /\ mut.pc = "idle" /\ changed = 0
                              /\ Whitelisted(hostname, local.whitelist),
                   !.readded = /\ mut.pc = "idle" /\ changed = 0
                               /\ hostname \in wlHist.added]
       IN IF allowUntil # 0 /\ now < allowUntil
          THEN /\ query' = [q EXCEPT !.pc = "done", !.res = FALSE]
               /\ DOMAIN_CACHE' = cacheSet(DOMAIN_CACHE, hostname, FALSE)
          ELSE IF allowUntil # 0
          THEN /\ query' = [q EXCEPT !.pc = "purge"]
               /\ UNCHANGED DOMAIN_CACHE
          ELSE WhitelistStage(q)
    /\ wlHist' = NoteVerdict(query', DOMAIN_CACHE', [wlHist EXCEPT !.added = @ \ {hostname}])
    /\ UNCHANGED <<stats, bloom, trie, cachedWhitelist, cachedVersion, whitelistVersion,
                   fetchRetryDelay, blockMeta, storeVars, envVars, initp, syncs, mut,
                   added, inserted, call, page, allowedAt, syncHist>>

\* lines 290-300: the call starts and reads its allow-once entry
IsDomainBlocked(hostname) ==
    /\ initp.pc = "ready"
    /\ \/ query.pc \in {"idle", "done"}
       \/ query.pc = "await" /\ query.host = hostname
    /\ LET allowUntil == IF hostname \in DOMAIN session THEN session[hostname] ELSE 0
           q == [IdleQuery EXCEPT
                   !.host = hostname,
                   !.live = /\ hostname \in DOMAIN allowedAt
                            /\ allowedAt[hostname] # 0
                            /\ now < allowedAt[hostname] + ALLOW_ONCE_TTL,
                   !.listed = /\ mut.pc = "idle" /\ changed = 0
                              /\ Whitelisted(hostname, local.whitelist),
                   !.readded = /\ mut.pc = "idle" /\ changed = 0
                               /\ hostname \in wlHist.added]
       IN IF allowUntil # 0 /\ now < allowUntil
          THEN /\ query' = [q EXCEPT !.pc = "done", !.res = FALSE]
               /\ UNCHANGED DOMAIN_CACHE
          ELSE IF allowUntil # 0
          THEN /\ query' = [q EXCEPT !.pc = "purge"]
               /\ UNCHANGED DOMAIN_CACHE
          ELSE WhitelistStage(q)
    /\ wlHist' = NoteVerdict(query', DOMAIN_CACHE', [wlHist EXCEPT !.added = @ \ {hostname}])
    /\ UNCHANGED <<stats, bloom, trie, cachedWhitelist, cachedVersion, whitelistVersion,
                   fetchRetryDelay, blockMeta, storeVars, envVars, initp, syncs, mut,
                   added, inserted, call, page, allowedAt, syncHist>>

\* line 299: await chrome.storage.session.remove(`allow_${hostname}`)
PurgeExpired ==
    /\ query.pc = "purge"
    /\ session' = [session EXCEPT ![query.host] = 0]
    /\ WhitelistStage(query)
    /\ wlHist' = NoteVerdict(query', DOMAIN_CACHE', wlHist)
    /\ UNCHANGED <<stats, bloom, trie, cachedWhitelist, cachedVersion, whitelistVersion,
                   fetchRetryDelay, blockMeta, idb, local, envVars, initp, syncs, mut,
                   added, inserted, call, page, allowedAt, syncHist>>

\* lines 216-219, then 304-328: the stored whitelist has arrived
WhitelistLoaded ==
    /\ query.pc = "wl"
    /\ cachedWhitelist' = Some(FullWhitelist(query.wl))
    /\ cachedVersion' = whitelistVersion
    /\ LET d == Decide(query.host, FullWhitelist(query.wl))
       IN /\ query' = [query EXCEPT !.pc = d.pc, !.res = d.res]
          /\ DOMAIN_CACHE' = d.cache
    /\ wlHist' = NoteVerdict(query', DOMAIN_CACHE', wlHist)
    /\ UNCHANGED <<stats, bloom, trie, whitelistVersion, fetchRetryDelay, blockMeta,
                   storeVars, envVars, initp, syncs, mut, added, inserted, call, page, allowedAt, syncHist>>

\* lines 326-328 with slowCheck (336-349): the readonly transaction has completed
SlowChecked ==
    /\ query.pc = "slow"
    /\ LET blocked == slowCheck(idb, SuffixesOf(query.host))
       IN /\ query' = [query EXCEPT !.pc = "done", !.res = blocked]
          /\ DOMAIN_CACHE' = cacheSet(DOMAIN_CACHE, query.host, blocked)
    /\ wlHist' = NoteVerdict(query', DOMAIN_CACHE', wlHist)
    /\ UNCHANGED <<stats, bloom, trie, cachedWhitelist, cachedVersion, whitelistVersion,
                   fetchRetryDelay, blockMeta, storeVars, envVars, initp, syncs, mut,
                   added, inserted, call, page, allowedAt, syncHist>>

(***************************************************************************)
(* onMessage: allowOnce, whitelist, removeFromWhitelist                    *)
(***************************************************************************)
\* lines 616-627: chrome.storage.session.set({ allow_<hostname>: Date.now() + 5 min })
AllowOnce(hostname) ==
    /\ initp.pc = "ready"
    /\ mut.pc = "idle"
    /\ now <= StartTime + MaxMinutes * Minute + ALLOW_ONCE_TTL
    /\ session' = [session EXCEPT ![hostname] = now + ALLOW_ONCE_TTL]
    /\ mut' = [pc |-> "allowed", action |-> "allowOnce", arg |-> hostname, wl |-> <<>>,
               before |-> Range(DOMAIN_CACHE)]
    /\ UNCHANGED <<memVars, idb, local, envVars, initp, syncs, query, histVars>>

\* lines 628-634: DOMAIN_CACHE.delete(hostname); sendResponse({ ok: true })
AllowOnceDone ==
    /\ mut.pc = "allowed"
    /\ DOMAIN_CACHE' = MapDelete(DOMAIN_CACHE, mut.arg)
    /\ allowedAt' = [allowedAt EXCEPT ![mut.arg] = now]
    /\ mut' = IdleMut
    /\ UNCHANGED <<stats, bloom, trie, cachedWhitelist, cachedVersion, whitelistVersion,
                   fetchRetryDelay, blockMeta, storeVars, envVars, initp, syncs, query,
                   added, inserted, call, page, wlHist, syncHist>>

\* lines 649 and 670: the handler reads the stored whitelist
WhitelistRequest(action, domain) ==
    /\ initp.pc = "ready"
    /\ mut.pc = "idle"
    /\ whitelistVersion + changed < MaxWlVersion
    /\ mut' = [pc |-> "read", action |-> action, arg |-> domain, wl |-> local.whitelist,
               before |-> Range(DOMAIN_CACHE)]
    /\ wlHist' = IF action = "removeFromWhitelist"
                 THEN [wlHist EXCEPT !.added = @ \ {domain}] ELSE wlHist
    /\ UNCHANGED <<memVars, storeVars, envVars, initp, syncs, query, added, inserted, call, page,
                   allowedAt, syncHist>>

\* the mutant: the whitelist handler appends the domain without the built-in test
WhitelistWrite_KeepsBuiltins ==
    /\ mut.pc = "read"
    /\ LET notRemoved(d) == d # mut.arg /\ d \notin PERMANENT_WHITELIST
           written == IF mut.action = "whitelist" THEN Append(mut.wl, mut.arg)
                      ELSE SelectSeq(mut.wl, notRemoved)
       IN /\ Len(written) <= MaxWhitelist
          /\ local' = [local EXCEPT !.whitelist = written]
          /\ changed' = IF written # local.whitelist THEN changed + 1 ELSE changed
    /\ mut' = [mut EXCEPT !.pc = "written"]
    /\ UNCHANGED <<memVars, idb, session, now, timers, initp, syncs, query, histVars>>

\* lines 650-652: whitelist handler writes the list with the domain appended
\* lines 671-672: removeFromWhitelist handler writes the list without the domain
WhitelistWrite ==
    /\ mut.pc = "read"
    /\ LET notPermanent(d) == d \notin PERMANENT_WHITELIST
           notRemoved(d) == d # mut.arg /\ d \notin PERMANENT_WHITELIST
           cleanExisting == SelectSeq(mut.wl, notPermanent)
           written == IF mut.action = "whitelist"
                      THEN IF mut.arg \notin PERMANENT_WHITELIST
                           THEN Append(cleanExisting, mut.arg) ELSE cleanExisting
                      ELSE SelectSeq(mut.wl, notRemoved)
       IN /\ Len(written) <= MaxWhitelist
          /\ local' = [local EXCEPT !.whitelist = written]
          /\ changed' = IF written # local.whitelist THEN changed + 1 ELSE changed
    /\ mut' = [mut EXCEPT !.pc = "written"]
    /\ UNCHANGED <<memVars, idb, session, now, timers, initp, syncs, query, histVars>>

\* the mutant: the handler forgets DOMAIN_CACHE.clear()
WhitelistDone_NoClear ==
    /\ mut.pc = "written"
    /\ whitelistVersion' = whitelistVersion + 1
    /\ cachedWhitelist' = None
    /\ mut' = IdleMut
    /\ wlHist' = IF mut.action = "whitelist" /\ mut.arg \in wlHist.cachedTrue
                 THEN [wlHist EXCEPT !.added = @ \cup {mut.arg}] ELSE wlHist
    /\ UNCHANGED <<stats, bloom, trie, DOMAIN_CACHE, cachedVersion, fetchRetryDelay,
                   blockMeta, storeVars, envVars, initp, syncs, query, added, inserted, call, page,
                   allowedAt, syncHist>>

\* lines 653-661 and 673-676: whitelistVersion++; cachedWhitelist = null; DOMAIN_CACHE.clear()
WhitelistDone ==
    /\ mut.pc = "written"
    /\ whitelistVersion' = whitelistVersion + 1
    /\ cachedWhitelist' = None
    /\ DOMAIN_CACHE' = <<>>
    /\ mut' = IdleMut
    /\ wlHist' = IF mut.action = "whitelist" /\ mut.arg \in wlHist.cachedTrue
                 THEN [wlHist EXCEPT !.added = @ \cup {mut.arg}] ELSE wlHist
    /\ UNCHANGED <<stats, bloom, trie, cachedVersion, fetchRetryDelay, blockMeta,
                   storeVars, envVars, initp, syncs, query, added, inserted, call, page, allowedAt, syncHist>>

\* lines 223-230: chrome.storage.onChanged listener, for a change of 'whitelist'
OnChanged ==
    /\ changed > 0
    /\ changed' = changed - 1
    /\ whitelistVersion' = whitelistVersion + 1
    /\ cachedWhitelist' = None
    /\ DOMAIN_CACHE' = <<>>
    /\ UNCHANGED <<stats, bloom, trie, cachedVersion, fetchRetryDelay, blockMeta,
                   storeVars, now, timers, initp, syncs, query, mut, histVars>>

(***************************************************************************)
(* settings.js: the add, remove and import handlers of the settings page,  *)
(* which read and write chrome.storage.local themselves                    *)
(***************************************************************************)
\* /^[a-z0-9.-]+\.[a-z]{2,}$/.test(d)
validDomain(d) ==
    LET dots == {i \in 1..Len(d) : d[i] = "."}
    IN /\ dots # {}
       /\ LET p == CHOOSE i \in dots : \A j \in dots : j <= i
          IN /\ p > 1 /\ Len(d) - p >= 2
             /\ \A i \in (p + 1)..Len(d) : IsIn(Lower, d[i])
             /\ \A i \in 1..(p - 1) :
                   IsIn(Lower, d[i]) \/ IsIn(Digit, d[i]) \/ d[i] \in {".", "-"}

\* lines 98-102: the domain the add handler makes of the text typed (the inputs of the
\* model have no protocol and no path)
cleanInput(text) ==
    LET lower == trim(toLowerCase(text))
    IN IF startsWith(lower, <<"w", "w", "w", ".">>) THEN SubSeq(lower, 5, Len(lower))
       ELSE lower

\* lines 294-297: the custom domains of an imported file
cleanImport(imported) ==
    LET custom(d) == d # <<>> /\ validDomain(d) /\ d \notin PERMANENT_WHITELIST
    IN SelectSeq([i \in 1..Len(imported) |-> trim(toLowerCase(imported[i]))], custom)

\* what is typed into the add field, and the files imported
AddInputs ==
    {phish1_com, <<"W", "w", "w", ".", "X", ".", "c", "o", "m">>,
     <<"W", "w", "w", ".", "P", "h", "i", "s", "h", "1", ".", "c", "o", "m">>}
ImportFiles ==
    {<<x_com>>, <<phish1_com, x_com>>,
     <<safe_com, <<" ", "S", "a", "f", "e", ".", "c", "o", "m">>>>}

\* cleanInput and cleanImport on the inputs of the model, computed once
InputMemo == [text \in AddInputs |-> cleanInput(text)]
ImportMemo == [imported \in ImportFiles |-> cleanImport(imported)]
AddOk == {text \in AddInputs :
            /\ InputMemo[text] # <<>> /\ validDomain(InputMemo[text])
            /\ InputMemo[text] \notin PERMANENT_WHITELIST}

\* lines 98-109, 133-138, 273-305: the handler has checked its input and reads the
\* stored whitelist
SettingsRequest(action, arg) ==
    /\ initp.pc = "ready"
    /\ page.pc = "idle"
    /\ whitelistVersion + changed < MaxWlVersion
    /\ CASE action = "add" ->
              /\ arg \in AddOk
              /\ page' = [pc |-> "read", action |-> action, arg |-> InputMemo[arg],
                          wl |-> local.whitelist]
         [] action = "remove" ->
              page' = [pc |-> "read", action |-> action, arg |-> arg, wl |-> local.whitelist]
         [] action = "import" ->
              /\ ImportMemo[arg] # <<>>
              /\ page' = [pc |-> "read", action |-> action, arg |-> ImportMemo[arg],
                          wl |-> local.whitelist]
    /\ UNCHANGED <<memVars, storeVars, envVars, procVars, added, inserted, call, allowedAt,
                   wlHist, syncHist>>

\* lines 110-116, 139-141, 305-313: the handler writes the list it has computed
SettingsWrite ==
    /\ page.pc = "read"
    /\ LET notPermanent(d) == d \notin PERMANENT_WHITELIST
           notRemoved(d) == d # page.arg
           all == SelectSeq(page.wl, notPermanent) \o page.arg
           firsts == {i \in 1..Len(all) : \A j \in 1..(i - 1) : all[j] # all[i]}
           merged == [k \in 1..Cardinality(firsts) |->
                         all[CHOOSE i \in firsts : Cardinality({j \in firsts : j <= i}) = k]]
           writes == page.action = "add" => page.arg \notin Range(page.wl)
           written == CASE page.action = "add" -> Append(page.wl, page.arg)
                        [] page.action = "remove" -> SelectSeq(page.wl, notRemoved)
                        [] page.action = "import" -> merged
       IN IF writes
          THEN /\ Len(written) <= MaxWhitelist
               /\ local' = [local EXCEPT !.whitelist = written]
               /\ changed' = IF written # local.whitelist THEN changed + 1 ELSE changed
          ELSE UNCHANGED <<local, changed>>
    /\ page' = IdlePage
    /\ UNCHANGED <<memVars, idb, session, now, timers, procVars, added, inserted, call,
                   allowedAt, wlHist, syncHist>>

(***************************************************************************)
(* The clock.  Time does not pass between the awaits of a message handler  *)
(* or of a lookup (their latency is far below the clock's steps); it does  *)
(* pass during a download.                                                 *)
(***************************************************************************)
Quiet == query.pc \in {"idle", "done"} /\ mut.pc = "idle"

TickMinute ==
    /\ Quiet
    /\ now + Minute <= StartTime + MaxMinutes * Minute
    /\ now' = now + Minute
    /\ UNCHANGED <<memVars, storeVars, timers, changed, procVars, histVars>>

\* the clock reaches the expiry of an allow-once entry
TickToExpiry ==
    /\ Quiet
    /\ \E h \in DOMAIN session :
          /\ session[h] > now
          /\ session[h] <= StartTime + MaxMinutes * Minute + 2 * ALLOW_ONCE_TTL
          /\ now' = session[h]
    /\ UNCHANGED <<memVars, storeVars, timers, changed, procVars, histVars>>

\* the clock reaches the instant at which a retry timer is due
TickToTimer ==
    /\ Quiet
    /\ \E n \in 1..Len(timers) :
          /\ timers[n] > now
          /\ timers[n] <= StartTime + MaxTimerMinutes * Minute
          /\ now' = timers[n]
    /\ UNCHANGED <<memVars, storeVars, timers, changed, procVars, histVars>>

\* the clock reaches the instant at which the stored list stops being fresh
TickToStale ==
    /\ Quiet
    /\ local.meta # None
    /\ Get(local.meta).lastUpdate + MAX_AGE > now
    /\ Get(local.meta).lastUpdate + MAX_AGE <= StartTime + MaxHours * Hour
    /\ now' = Get(local.meta).lastUpdate + MAX_AGE
    /\ UNCHANGED <<memVars, storeVars, timers, changed, procVars, histVars>>

(***************************************************************************)
(* Specifications                                                          *)
(***************************************************************************)
\* the steps of init() and of a fetchBlocklist() whose download succeeds
StartUp ==
    \/ InitOpen \/ InitCheck \/ InitFetched \/ buildFastStructures \/ PersistBloom
    \/ InitDone
    \/ \E s \in 1..MaxSyncs :
          FetchOk(s) \/ ClearDB(s) \/ AddDomains(s) \/ WriteMeta(s) \/ FinishSync(s)

\* the sync engine during one life of the service worker: the start, alarms and
\* manual refreshes, every download succeeding
Next ==
    \/ StartUp
    \/ Alarm \/ RefreshBlocklist

Spec == Init /\ [][Next]_vars

\* downloads that fail, and the retries
NextRetry ==
    \/ StartUp
    \/ \E s \in 1..MaxSyncs : FetchFail(s)
    \/ RetryTimer
    \/ TickToTimer

SpecRetry == Init /\ [][NextRetry]_vars

\* downloads that fail once a dataset is installed: manual refreshes made while no
\* sync runs, whose download fails or succeeds, and the retries
NextOutage ==
    \/ NextRetry
    \/ Running = {} /\ initp.pc = "ready" /\ RefreshBlocklist

SpecOutage == Init /\ [][NextOutage]_vars

\* transactions of the store that fail, in the sync of the start and in manual
\* refreshes made while no sync runs
NextTx ==
    \/ StartUp
    \/ Running = {} /\ RefreshBlocklist
    \/ \E s \in 1..MaxSyncs : TxFail(s)

\* the continuations of init() and fetchBlocklist() that run once the promise they
\* wait for has settled; the arrival of a download is left to the network
Continuations ==
    \/ InitOpen \/ InitCheck \/ InitFetched \/ buildFastStructures \/ PersistBloom
    \/ InitDone
    \/ \E s \in 1..MaxSyncs : ClearDB(s) \/ AddDomains(s) \/ WriteMeta(s) \/ FinishSync(s)

SpecTx == Init /\ [][NextTx]_vars /\ WF_vars(Continuations)

\* the starts of the service worker alone: it is stopped at any point, a sync
\* included, and started again on what the storage areas then hold
NextBoot ==
    \/ StartUp
    \/ Restart

SpecBoot == Init /\ [][NextBoot]_vars

\* the alarm of the periodic check going off while no sync runs, with downloads that
\* succeed or fail, the retries, and the clock reaching the instant at which the stored
\* list stops being fresh
NextTrigger ==
    \/ NextRetry
    \/ Running = {} /\ Alarm
    \/ TickToStale

SpecTrigger == Init /\ [][NextTrigger]_vars

\* the sync of a first start, on feeds as they come
NextParse ==
    \/ InitOpen \/ InitCheck
    \/ \E s \in 1..MaxSyncs :
          FetchRaw(s) \/ ClearDB(s) \/ AddDomains(s) \/ WriteMeta(s) \/ FinishSync(s)

SpecParse == Init /\ [][NextParse]_vars

\* syncs of feeds of different lengths, one at a time, and the service worker stopped
\* while no sync runs or between the clearDB and the meta write of one, and started again
NextInterrupt ==
    \/ InitOpen \/ InitCheck \/ InitFetched \/ buildFastStructures \/ PersistBloom
    \/ InitDone
    \/ \E s \in 1..MaxSyncs :
          FetchRaw(s) \/ ClearDB(s) \/ AddDomains(s) \/ WriteMeta(s) \/ FinishSync(s)
    \/ Running = {} /\ initp.pc = "ready" /\ RefreshBlocklist
    \/ (\A s \in 1..MaxSyncs : syncs[s].pc \in {"free", "batch", "meta"}) /\ Restart

SpecInterrupt == Init /\ [][NextInterrupt]_vars

\* the user whitelist a start finds: empty, or left by an earlier session
InitSettings ==
    /\ MemoryAtLoad /\ ProcessesAtLoad
    /\ idb = {} /\ session = [h \in AllowHosts |-> 0]
    /\ \E whitelist \in {<<>>, <<phish1_com>>} :
          local = [whitelist |-> whitelist, meta |-> None, bloomCache |-> None,
                   bloomMeta |-> None]
    /\ now = StartTime /\ timers = <<>> /\ changed = 0
    /\ added = {} /\ inserted = {} /\ allowedAt = [h \in AllowHosts |-> 0]
    /\ wlHist = NoHistory /\ syncHist = NoSyncHistory /\ call = None /\ page = IdlePage

\* the whitelist handlers of the service worker and of the settings page, and lookups
\* of a built-in domain
NextSettings ==
    \/ StartUp
    \/ \E d \in WhitelistDomains : WhitelistRequest("whitelist", d)
    \/ \E d \in WhitelistDomains : WhitelistRequest("removeFromWhitelist", d)
    \/ WhitelistWrite \/ WhitelistDone \/ OnChanged
    \/ \E text \in AddInputs : SettingsRequest("add", text)
    \/ \E d \in WhitelistDomains \ PERMANENT_WHITELIST : SettingsRequest("remove", d)
    \/ \E imported \in ImportFiles : SettingsRequest("import", imported)
    \/ SettingsWrite
    \/ IsDomainBlocked(x_com) \/ WhitelistLoaded

SpecSettings == InitSettings /\ [][NextSettings]_vars

\* removals of a listed domain from the user whitelist, by the service worker and by
\* the settings page, and lookups of that domain at any point of them
NextRemoval ==
    \/ StartUp
    \/ WhitelistRequest("removeFromWhitelist", phish1_com)
    \/ WhitelistWrite \/ WhitelistDone \/ OnChanged
    \/ SettingsRequest("remove", phish1_com) \/ SettingsWrite
    \/ IsDomainBlocked(phish1_com) \/ WhitelistLoaded

SpecRemoval == InitSettings /\ [][NextRemoval]_vars

\* the service worker is stopped and started again; alarms, and lookups that run
\* meanwhile
NextRestart ==
    \/ StartUp
    \/ Alarm \/ Restart
    \/ \E h \in SyncHosts : IsDomainBlocked(h)
    \/ WhitelistLoaded \/ SlowChecked
    \/ TickToStale

SpecRestart == Init /\ [][NextRestart]_vars

\* the decision policy: one start on a fresh profile, then lookups, allow-once and
\* whitelist requests
NextPolicy ==
    \/ StartUp
    \/ \E h \in PolicyHosts : IsDomainBlocked(h)
    \/ PurgeExpired \/ WhitelistLoaded
    \/ \E h \in AllowHosts : AllowOnce(h)
    \/ AllowOnceDone
    \/ \E d \in WhitelistDomains : WhitelistRequest("whitelist", d)
    \/ \E d \in WhitelistDomains : WhitelistRequest("removeFromWhitelist", d)
    \/ WhitelistWrite \/ WhitelistDone \/ OnChanged
    \/ TickMinute \/ TickToExpiry

SpecPolicy == Init /\ [][NextPolicy]_vars

\* the Bloom filter alone: a filter of a small size and hash count, then adds
InitBloom ==
    /\ MemoryAtLoad /\ StorageAtInstall /\ ProcessesAtLoad
    /\ now = StartTime /\ timers = <<>> /\ changed = 0
    /\ inserted = {} /\ allowedAt = [h \in AllowHosts |-> 0] /\ wlHist = NoHistory
    /\ syncHist = NoSyncHistory /\ call = None /\ page = IdlePage
    /\ added \in {[size |-> n, hashCount |-> hc, keys |-> {}, bf |-> BloomFilter(n, hc)] :
                     n \in 1..MaxBloomSize, hc \in {<<1, 100>>, <<2, 1>>, <<7, 1>>}}

BloomAdd(str) ==
    /\ added' = [added EXCEPT !.keys = @ \cup {str}, !.bf = add(@, str)]
    /\ UNCHANGED <<memVars, storeVars, envVars, procVars, inserted, call, page, allowedAt, wlHist, syncHist>>

NextBloom == \E str \in BloomKeys : BloomAdd(str)

SpecBloom == InitBloom /\ [][NextBloom]_vars

\* the filter and the trie built over the same keys, as buildFastStructures fills them:
\* a filter of twice as many slots as there are domains, and an empty trie
InitFilter ==
    /\ MemoryAtLoad /\ StorageAtInstall /\ ProcessesAtLoad
    /\ now = StartTime /\ timers = <<>> /\ changed = 0
    /\ allowedAt = [h \in AllowHosts |-> 0] /\ wlHist = NoHistory
    /\ syncHist = NoSyncHistory /\ call = None /\ page = IdlePage
    /\ added \in {[size |-> 2 * n, hashCount |-> BUILD_HASH_COUNT, keys |-> {},
                   bf |-> BloomFilter(2 * n, BUILD_HASH_COUNT)] :
                     n \in 1..Cardinality(TrieKeys)}
    /\ inserted = [keys |-> {}, trie |-> DomainTrie]

\* lines 484-487: bloom.add(d); trie.insert(d)
BuildStep(d) ==
    /\ added' = [added EXCEPT !.keys = @ \cup {d}, !.bf = add(@, d)]
    /\ inserted' = [keys |-> inserted.keys \cup {d}, trie |-> insert(inserted.trie, d)]
    /\ UNCHANGED <<memVars, storeVars, envVars, procVars, call, page, allowedAt, wlHist,
                   syncHist>>

NextFilter == \E d \in TrieKeys : BuildStep(d)

SpecFilter == InitFilter /\ [][NextFilter]_vars

\* the trie alone: an empty trie, then inserts
InitTrie ==
    /\ MemoryAtLoad /\ StorageAtInstall /\ ProcessesAtLoad
    /\ now = StartTime /\ timers = <<>> /\ changed = 0
    /\ added = {} /\ allowedAt = [h \in AllowHosts |-> 0] /\ wlHist = NoHistory
    /\ syncHist = NoSyncHistory /\ call = None /\ page = IdlePage
    /\ inserted = [keys |-> {}, trie |-> DomainTrie]

TrieInsert(key) ==
    /\ inserted' = [keys |-> inserted.keys \cup {key}, trie |-> insert(inserted.trie, key)]
    /\ UNCHANGED <<memVars, storeVars, envVars, procVars, added, call, page, allowedAt, wlHist, syncHist>>

NextTrie == \E key \in TrieKeys : TrieInsert(key)

SpecTrie == InitTrie /\ [][NextTrie]_vars

\* getRegistrableDomain alone: hostnames of up to MaxLabels labels, among them empty
\* labels (leading, doubled and trailing dots), upper case and digits
RegLabels == {<<"a">>, <<"C","o">>, <<"c","o">>, <<"u","k">>, <<"c","o","m">>, <<"1">>, <<>>}
RegHostnames ==
    {join(ls, ".") : ls \in UNION {[1..n -> RegLabels] : n \in 1..MaxLabels}}
    \cup {<<"a",".","b",".","c","o",".","u","k">>,
          <<"s","u","b",".","e","x","a","m","p","l","e",".","c","o","m">>,
          <<"1","9","2",".","1","6","8",".","1",".","1">>}

InitReg ==
    /\ MemoryAtLoad /\ StorageAtInstall /\ ProcessesAtLoad
    /\ now = StartTime /\ timers = <<>> /\ changed = 0
    /\ added = {} /\ inserted = {} /\ allowedAt = [h \in AllowHosts |-> 0]
    /\ wlHist = NoHistory /\ syncHist = NoSyncHistory
    /\ call = None /\ page = IdlePage

Registrable(hostname) ==
    /\ call = None
    /\ call' = Some([hostname |-> hostname, result |-> getRegistrableDomain(hostname)])
    /\ UNCHANGED <<memVars, storeVars, envVars, procVars, added, inserted, page, allowedAt,
                   wlHist, syncHist>>

NextReg == \E hostname \in RegHostnames : Registrable(hostname)

SpecReg == InitReg /\ [][NextReg]_vars

(***************************************************************************)
(* The claims                                                              *)
(***************************************************************************)
\* C1: an isDomainBlocked call for a hostname that was whitelisted (itself or its
\* registrable domain, built-in or user list, no whitelist change in flight) when the
\* call started returns false
C1_WhitelistedNotBlocked == query.pc = "done" /\ query.listed => query.res = FALSE

\* C2: mightContain is true for every key added to a filter, right after its add and
\* after any number of further adds
C2_NoFalseNegatives == \A k \in added.keys : mightContain(added.bf, k)

\* several keys were added to a filter that still tells some other key apart
C2_Witness ==
    /\ Cardinality(added.keys) >= 3
    /\ \E k \in BloomKeys \ added.keys : ~mightContain(added.bf, k)

\* C3: searchSuffix(reverse(h)) is true only when h itself or a parent domain of h,
\* cut at a label boundary, was inserted; it is true for every such h
C3_SuffixSemantics ==
    \A h \in TrieHosts :
        searchSuffix(inserted.trie, reverseDomain(h))
            <=> (Suffixes(reverseDomain(h)) \cap inserted.keys # {})

\* C4: an isDomainBlocked(h) call made less than 5 minutes after an allowOnce(h)
\* request completed returns false
C4_AllowOnceTTL == query.pc = "done" /\ query.live => query.res = FALSE

\* C5: after a "blocked" verdict for x was cached and a whitelist-add request for x
\* has then completed (its change event delivered too), the next isDomainBlocked(x)
\* returns false
C5_CacheCoherence == query.pc = "done" /\ query.readded => query.res = FALSE

\* C6: after the first sync and the structure build, isDomainBlocked(h) is true exactly
\* for the hosts that are listed or lie under a listed domain, and blocklistSize is the
\* number of listed domains
C6_EndToEnd ==
    /\ query.pc = "done"
    /\ initp.boots = 1
    /\ Running = {}
    /\ local.meta # None
    /\ Get(local.meta).version = 1
    => /\ query.res = slowCheck(idb, Suffixes(reverseDomain(query.host)))
       /\ stats.blocklistSize = Cardinality(idb)

\* C7: at no time are two fetchBlocklist runs in their store-writing stage (clearDB,
\* addDomains batches, meta write, snapshot removal) together
C7_SyncSerialized ==
    Cardinality({s \in 1..MaxSyncs : syncs[s].pc \in {"clear", "batch", "meta", "finish"}}) <= 1

\* C8: whenever init has completed and no sync is running, the installed trie and
\* Bloom filter are those built from the present contents of the store
C8_RebuiltAfterSync ==
    initp.pc = "ready" /\ Running = {} /\ trie # None
    => trie = Some(BuildTrie(idb)) /\ bloom = Some(BuildBloom(idb))

\* C9: the store read of an isDomainBlocked call (slowCheck) never happens while a sync
\* has cleared the store and has not yet written all its batches
C9_OneGeneration ==
    [][query.pc = "slow" /\ query'.pc = "done"
       => \A s \in 1..MaxSyncs : syncs[s].pc # "batch"]_vars

\* C10 as stated: when an allowOnce, whitelist or removeFromWhitelist request completes,
\* the verdict cache holds no entry that was present when the request started
C10_FullInvalidation ==
    [][mut.pc # "idle" /\ mut'.pc = "idle"
       => Range(DOMAIN_CACHE') \cap mut.before = {}]_vars

\* C10 as amended: when a whitelist or removeFromWhitelist request completes the verdict
\* cache is empty; when an allowOnce(h) request completes the cache holds no entry for h
\* and every entry of another hostname is still there
C10_Invalidation ==
    [][/\ mut.pc = "written" /\ mut'.pc = "idle" => DOMAIN_CACHE' = <<>>
       /\ mut.pc = "allowed" /\ mut'.pc = "idle"
          => /\ mut.arg \notin CacheKeys(DOMAIN_CACHE')
             /\ \A e \in Range(DOMAIN_CACHE) : e.k # mut.arg => e \in Range(DOMAIN_CACHE')]_vars

\* an allowOnce request and a whitelist-add request for a domain whose "blocked" verdict
\* had been cached have both completed, and the cache is empty
C10_Witness ==
    /\ mut.pc = "idle"
    /\ wlHist.added # {}
    /\ allowedAt[phish1_com] # 0
    /\ DOMAIN_CACHE = <<>>

\* C11: when a sync of a feed has completed on its own and the next sync, run after
\* it with the structures in place, downloads the same feed, the second sync leaves the
\* store's keys, the trie (so every searchSuffix result), blocklistSize and the recorded
\* size as it found them; the version goes up by one
C11_SyncIdempotent ==
    [][~syncHist.repeat /\ syncHist'.repeat
       => \E s \in 1..MaxSyncs :
             /\ syncs[s].pc = "finish"
             /\ idb' = syncs[s].pre.idb
             /\ trie' = syncs[s].pre.trie
             /\ stats'.blocklistSize = syncs[s].pre.size
             /\ local'.meta # None
             /\ Get(local'.meta).size = syncs[s].pre.metaSize
             /\ Get(local'.meta).version = syncs[s].savedMeta.version + 1]_vars

\* the second of two syncs of one feed has completed, the store is filled and the trie built
C11_Witness == syncHist.repeat /\ Running = {} /\ idb # {} /\ trie # None

\* C12: getRegistrableDomain returns an IPv4 literal and any hostname of at most two
\* labels unchanged; a longer hostname gives its last three labels when the last two
\* form a listed suffix of two labels (co.uk) and its last two labels otherwise
\* (a.b.co.uk gives b.co.uk, sub.example.com gives example.com, 192.168.1.1 itself);
\* the result is a suffix of the lowercased input that starts at a label
C12_Registrable ==
    call # None =>
        LET h == Get(call).hostname
            r == Get(call).result
            low == toLowerCase(h)
            labels == split(low, ".")
            n == Len(labels)
            listed == {s \in COMMON_TLDS : IsIn(s, ".")}
        IN /\ (IsIPv4(h) \/ n <= 2) => r = h
           /\ (~IsIPv4(h) /\ n > 2) =>
                 r = IF (labels[n-1] \o <<".">> \o labels[n]) \in listed
                     THEN labels[n-2] \o <<".">> \o labels[n-1] \o <<".">> \o labels[n]
                     ELSE labels[n-1] \o <<".">> \o labels[n]
           /\ \E k \in 0..Len(low) : /\ r = SubSeq(low, k + 1, Len(low))
                                     /\ (k = 0 \/ low[k] = ".")

\* C12 as the code has it: with h the input lowercased and without its leading dots,
\* an IPv4 literal and the empty string come back unchanged, any other input of at
\* most two labels in h gives h, a longer h gives its last three labels when the last
\* two form a listed suffix of two labels (co.uk) and its last two labels otherwise;
\* the examples and the suffix property as in the claim
C12_RegistrableNormalized ==
    call # None =>
        LET h == Get(call).hostname
            r == Get(call).result
            low == toLowerCase(h)
            dots == CHOOSE k \in 0..Len(low) :
                        /\ \A i \in 1..k : low[i] = "."
                        /\ (k = Len(low) \/ low[k + 1] # ".")
            h0 == SubSeq(low, dots + 1, Len(low))
            labels == split(h0, ".")
            n == Len(labels)
            listed == {s \in COMMON_TLDS : IsIn(s, ".")}
        IN /\ (IsIPv4(h) \/ h = <<>>) => r = h
           /\ (~IsIPv4(h) /\ h # <<>> /\ n <= 2) => r = h0
           /\ (~IsIPv4(h) /\ n > 2) =>
                 r = IF (labels[n-1] \o <<".">> \o labels[n]) \in listed
                     THEN labels[n-2] \o <<".">> \o labels[n-1] \o <<".">> \o labels[n]
                     ELSE labels[n-1] \o <<".">> \o labels[n]
           /\ h = <<"a",".","b",".","c","o",".","u","k">>
                 => r = <<"b",".","c","o",".","u","k">>
           /\ h = <<"s","u","b",".","e","x","a","m","p","l","e",".","c","o","m">>
                 => r = <<"e","x","a","m","p","l","e",".","c","o","m">>
           /\ h = <<"1","9","2",".","1","6","8",".","1",".","1">> => r = h
           /\ \E k \in 0..Len(low) : /\ r = SubSeq(low, k + 1, Len(low))
                                     /\ (k = 0 \/ low[k] = ".")

\* the registrable domain of a.Co.co.uk has been computed: co.co.uk
C12_Witness ==
    /\ call # None
    /\ Get(call).hostname = <<"a",".","C","o",".","c","o",".","u","k">>
    /\ Get(call).result = <<"c","o",".","c","o",".","u","k">>

\* C13: the retry scheduled by the k-th consecutive failed sync fires
\* min(5 minutes * 2^(k-1), 1 hour) after the failure
C13_RetryBackoff ==
    [][syncHist'.fails = syncHist.fails + 1
       => LET k == syncHist'.fails
              doubled == INITIAL_RETRY_DELAY * 2^(k - 1)
              delay == IF doubled < MAX_RETRY_DELAY THEN doubled ELSE MAX_RETRY_DELAY
          IN timers' = SortedInsert(timers, now + delay)]_vars

\* C14: the step in which a download fails leaves the store, the meta record and the
\* persisted filter, the installed filter and trie and the verdict cache as they were,
\* so that every hostname gets the verdict it got before, and adds a retry timer; the
\* sync a retry timer starts is a forced one
C14_FailedDownloadHarmless ==
    [][/\ syncHist'.fails = syncHist.fails + 1
          => /\ idb' = idb /\ local' = local
             /\ bloom' = bloom /\ trie' = trie /\ DOMAIN_CACHE' = DOMAIN_CACHE
             /\ \A h \in SyncHosts :
                   /\ Decide(h, PERMANENT_WHITELIST)' = Decide(h, PERMANENT_WHITELIST)
                   /\ slowCheck(idb', SuffixesOf(h)) = slowCheck(idb, SuffixesOf(h))
             /\ Len(timers') = Len(timers) + 1
             /\ \E n \in 1..Len(timers') : timers'[n] > now
       /\ Len(timers') < Len(timers)
          => \E s \in 1..MaxSyncs :
                syncs[s].pc = "free" /\ syncs'[s].pc = "download" /\ syncs'[s].force]_vars

\* a download has failed while a dataset was installed, and its retry is pending
C14_Witness ==
    /\ syncHist.fails > 0 /\ Running = {} /\ timers # <<>>
    /\ idb # {} /\ local.meta # None /\ bloom # None /\ trie # None
    /\ \E h \in SyncHosts : searchSuffix(Get(trie), Rev(h))

\* C15: a sync whose clearDB or addDomains transaction has failed does not stay
\* suspended for ever (the recovery runs and the wait ends)
C15_TxFailureRecovered ==
    \A s \in 1..MaxSyncs : (syncs[s].pc = "failed") ~> (syncs[s].pc # "failed")

\* C16: when init has compared the store's key count with the size recorded in the
\* meta record, it has started a forced download, which it awaits, if the count is 0 or
\* differs from the recorded size, and has started no download if the count is
\* non-zero and equal to the recorded size
C16_InitCountCheck ==
    [][initp.pc = "check" /\ initp'.pc \notin {"check", "boot"}
       => LET recorded == IF local.meta = None THEN 0 ELSE Get(local.meta).size
              started == {s \in 1..MaxSyncs : syncs[s].pc = "free" /\ syncs'[s].pc # "free"}
          IN IF Cardinality(idb) = 0 \/ Cardinality(idb) # recorded
             THEN /\ initp'.pc = "fetch"
                  /\ \E s \in started :
                        syncs'[s].pc = "download" /\ syncs'[s].force /\ syncs'[s].awaited
             ELSE /\ initp'.pc # "fetch"
                  /\ started = {} /\ syncs' = syncs]_vars

\* a start has found as many keys in the store as the meta record says, and builds the
\* structures without a download
C16_Witness ==
    /\ initp.pc = "build" /\ initp.boots > 1 /\ Running = {}
    /\ idb # {} /\ local.meta # None
    /\ Cardinality(idb) = Get(local.meta).size
    /\ blockMeta = Get(local.meta)

\* C17: init installs the filter of the persisted snapshot exactly when the snapshot
\* and its meta record exist and the tagged version and domain count equal the version
\* and size of the meta record; otherwise init goes on to buildFastStructures, which
\* builds the filter from all keys of the store. The filter a snapshot restores to
\* answers mightContain for every string as the filter that was serialized
C17_FastPathRestore ==
    [][/\ initp.pc = "boot" /\ initp'.pc = "check"
          => LET current == IF local.meta = None THEN NoMeta ELSE Get(local.meta)
                 match == /\ local.bloomCache # None /\ local.bloomMeta # None
                          /\ Get(local.bloomMeta).version = current.version
                          /\ Get(local.bloomMeta).domainCount = current.size
             IN IF match
                THEN /\ initp'.restored
                     /\ bloom' # None
                     /\ Get(bloom').size = Get(local.bloomCache).size
                     /\ Get(bloom').hashCount = Get(local.bloomCache).hashCount
                     /\ \A j \in 0..(Get(bloom').size - 1) :
                           Get(bloom').bitArray[j] = Get(local.bloomCache).bitArray[j + 1]
                ELSE ~initp'.restored /\ bloom' = None
       /\ initp.pc \in {"check", "fetch"} /\ initp'.pc \notin {"check", "fetch", "boot"}
          => initp'.pc = IF initp.restored THEN "finish" ELSE "build"
       /\ initp.pc = "build" /\ initp'.pc = "persist"
          => /\ bloom' # None
             /\ Get(bloom').size = 2 * Cardinality(idb)
             /\ \A k \in idb : mightContain(Get(bloom'), k)
       /\ initp.pc = "persist" /\ initp'.pc = "finish"
          => /\ local'.bloomCache # None
             /\ \A str \in HashUniverse :
                   mightContain(restoreBloom(Get(local'.bloomCache)), str)
                      = mightContain(Get(bloom), str)]_vars

\* a start has installed the filter of the snapshot, and the filter holds a key
C17_Witness ==
    /\ initp.restored /\ initp.pc = "check" /\ bloom # None
    /\ \E k \in idb : mightContain(Get(bloom), k)

\* C18: whenever buildFastStructures persists a snapshot, the snapshot's meta record
\* carries the version and the size of the meta record that storage holds at that
\* moment
C18_SnapshotTag ==
    [][local'.bloomMeta # None /\ local'.bloomMeta # local.bloomMeta
       => LET current == IF local'.meta = None THEN NoMeta ELSE Get(local'.meta)
          IN /\ Get(local'.bloomMeta).version = current.version
             /\ Get(local'.bloomMeta).domainCount = current.size]_vars

\* C19: after any sequence of lookups and mutators the verdict cache holds at most
\* MAX_CACHE entries
C19_CacheBounded ==
    /\ Len(DOMAIN_CACHE) <= MAX_CACHE
    /\ Cardinality(CacheKeys(DOMAIN_CACHE)) <= MAX_CACHE

\* the cache is full, and the lookup that has just returned has put its hostname in as
\* the newest entry while another hostname looked up before is no longer cached
C19_Witness ==
    /\ Len(DOMAIN_CACHE) = MAX_CACHE
    /\ query.pc = "done" /\ DOMAIN_CACHE[Len(DOMAIN_CACHE)].k = query.host
    /\ wlHist.cachedTrue \ CacheKeys(DOMAIN_CACHE) # {}

\* C20: a lookup that returns removes from the cache at most the entry inserted
\* earliest (the first in the Map's order) and only when the cache was at capacity; no
\* step, be it a cache hit or the overwrite of an existing key, changes the order in
\* which the keys that stay in the cache will be evicted
C20_EvictionOrder ==
    [][LET staysIn(e) == e.k \in CacheKeys(DOMAIN_CACHE')
           wasIn(e) == e.k \in CacheKeys(DOMAIN_CACHE)
           kept == SelectSeq(DOMAIN_CACHE, staysIn)
           keptAfter == SelectSeq(DOMAIN_CACHE', wasIn)
           removed == CacheKeys(DOMAIN_CACHE) \ CacheKeys(DOMAIN_CACHE')
       IN /\ [i \in 1..Len(kept) |-> kept[i].k] = [i \in 1..Len(keptAfter) |-> keptAfter[i].k]
          /\ query.pc # "done" /\ query'.pc = "done"
             => /\ Len(DOMAIN_CACHE) < MAX_CACHE => removed = {}
                /\ Len(DOMAIN_CACHE) >= MAX_CACHE => removed \subseteq {DOMAIN_CACHE[1].k}]_vars
(***************************************************************************)
(* C21: built-in whitelist entries are never persisted.  After any         *)
(* sequence of whitelist, removeFromWhitelist, add, remove and import      *)
(* operations the stored user whitelist holds no built-in domain, the full *)
(* whitelist the service worker caches holds every built-in domain, and a  *)
(* lookup of a built-in domain answers "not blocked".                      *)
(***************************************************************************)
C21_BuiltinsNotPersisted ==
    /\ Range(local.whitelist) \cap PERMANENT_WHITELIST = {}
    /\ cachedWhitelist # None => PERMANENT_WHITELIST \subseteq Get(cachedWhitelist)
    /\ query.pc = "done" /\ query.host \in PERMANENT_WHITELIST => ~query.res

\* removeFromWhitelist of a built-in domain has written a list that holds custom
\* domains, and a lookup of that domain has answered
C21_Witness ==
    /\ mut.pc = "written" /\ mut.action = "removeFromWhitelist"
    /\ mut.arg \in PERMANENT_WHITELIST
    /\ local.whitelist # <<>>
    /\ query.pc = "done" /\ query.host = mut.arg /\ ~query.res

(***************************************************************************)
(* C22: the keys of the user whitelist are unique.  After any sequence of  *)
(* whitelist-add requests, a request for a domain that is already in the   *)
(* user whitelist included, the stored whitelist holds each domain at most *)
(* once.                                                                   *)
(***************************************************************************)
C22_WhitelistUnique ==
    Cardinality(Range(local.whitelist)) = Len(local.whitelist)

(***************************************************************************)
(* C23: the sync trigger.  A fetchBlocklist(false) request made less than  *)
(* 6 hours after the last successful sync of a non-empty blocklist (the    *)
(* lastUpdate of the meta record) performs no download and leaves the      *)
(* store, the meta record, the snapshot, the Bloom filter and the trie     *)
(* unchanged; a request with force set, with no prior successful sync, or  *)
(* made 6 hours or more after the last success starts a download.          *)
(***************************************************************************)
C23_SyncTrigger ==
    LET synced == local.meta # None /\ Get(local.meta).size > 0
        recent == synced /\ now - Get(local.meta).lastUpdate < 6 * Hour
        room == /\ FreeSlots # {}
                /\ local.meta # None => Get(local.meta).version < MaxVersion
    IN /\ initp.pc = "ready" /\ recent
          => ~ENABLED (Alarm /\ ~UNCHANGED <<idb, local, bloom, trie, syncs>>)
       /\ initp.pc = "ready" /\ ~recent /\ room
          => ENABLED (Alarm /\ \E s \in FreeSlots : syncs'[s].pc = "download")
       /\ initp.pc = "ready" /\ room
          => ENABLED (RefreshBlocklist /\ \E s \in FreeSlots : syncs'[s].pc = "download")

\* at exactly six hours after the last success the alarm has started a download, not
\* forced, over a non-empty list
C23_Witness ==
    \E s \in 1..MaxSyncs :
       /\ syncs[s].pc = "download" /\ ~syncs[s].force
       /\ syncs[s].savedMeta.size > 0
       /\ syncs[s].now - syncs[s].savedMeta.lastUpdate = 6 * Hour

(***************************************************************************)
(* C24: the keys a sync writes are exactly the reversed-label, lowercased  *)
(* forms of the feed lines that, after trimming, are non-empty and do not  *)
(* begin with '#': every such line has its key in the store, and the store *)
(* holds no other key.                                                     *)
(***************************************************************************)
C24_SyncKeys ==
    LET text == Get(call).text
        entries == {trim(text[i]) : i \in 1..Len(text)} \ {<<>>}
        domains == {t \in entries : t[1] # "#"}
        keyOf(k, t) == /\ Len(k) = Len(t)
                       /\ split(k, ".") = reverse(split(toLowerCase(t), "."))
    IN call # None /\ (\A s \in 1..MaxSyncs : syncs[s].pc \in {"free", "meta", "finish"})
       => /\ \A t \in domains : \E k \in idb : keyOf(k, t)
          /\ \A k \in idb : \E t \in domains : keyOf(k, t)

\* a sync has written the keys of a feed with a padded line in capitals and a line
\* that is a comment once trimmed
C24_Witness ==
    /\ call # None
    /\ \E s \in 1..MaxSyncs : syncs[s].pc = "meta"
    /\ Get(call).text = <<<<" ", "P", "h", "i", "s", "h", "2", ".", "O", "R", "G", " ">>,
                          <<" ", "#", "x", ".", "c", "o", "m">>>>
    /\ idb = {<<"o", "r", "g", ".", "p", "h", "i", "s", "h", "2">>}

(***************************************************************************)
(* C25: every key a sync stores is a normalized Domain key.  A feed line   *)
(* that differs from a domain d only by letter case or by a leading "www." *)
(* label is stored under the key of d: once the sync has written its keys, *)
(* the store holds, for every domain line of the feed, the reversed form   *)
(* of the line in lower case with a leading "www." stripped.               *)
(***************************************************************************)
C25_NormalizedKeys ==
    LET text == Get(call).text
        entries == {trim(text[i]) : i \in 1..Len(text)} \ {<<>>}
        domains == {toLowerCase(t) : t \in {e \in entries : e[1] # "#"}}
        www == <<"w", "w", "w", ".">>
        normalized(t) == IF startsWith(t, www) THEN SubSeq(t, 5, Len(t)) ELSE t
    IN call # None /\ (\A s \in 1..MaxSyncs : syncs[s].pc \in {"free", "meta", "finish"})
       => \A t \in domains : reverseDomain(normalized(t)) \in idb

(***************************************************************************)
(* C26: the version of the meta record increases by exactly one with each  *)
(* successful sync (and so never repeats and never decreases): the meta    *)
(* write of a sync records the version stored just before it, plus one.    *)
(***************************************************************************)
C26_VersionIncrements ==
    [][\A s \in 1..MaxSyncs :
          WriteMeta(s) =>
             Get(local'.meta).version
                = (IF local.meta = None THEN 0 ELSE Get(local.meta).version) + 1]_vars

(***************************************************************************)
(* C27: the query contract of the trie.  For every set of inserted keys,   *)
(* whatever the insertion order, and every query q, searchSuffix(q) is     *)
(* true exactly when some inserted key is a character-wise prefix of q, q  *)
(* itself included.  The queries are the keys and all their prefixes.      *)
(***************************************************************************)
C27_TrieContract ==
    \A key \in TrieKeys : \A n \in 0..Len(key) :
        LET q == SubSeq(key, 1, n)
        IN searchSuffix(inserted.trie, q) <=> \E k \in inserted.keys : startsWith(q, k)

\* with several keys inserted, a query longer than an inserted key is answered true at
\* the terminal node met on the way, a query that ends inside an inserted key is
\* answered false by the flag of its last node, and a query leaves the trie
C27_Witness ==
    /\ Cardinality(inserted.keys) >= 2
    /\ reverseDomain(evil_com) \in inserted.keys
    /\ reverseDomain(evilx_com) \notin inserted.keys
    /\ searchSuffix(inserted.trie, reverseDomain(evilx_com))
    /\ reverseDomain(phish2_org) \in inserted.keys
    /\ ~searchSuffix(inserted.trie, SubSeq(reverseDomain(phish2_org), 1, 6))
    /\ reverseDomain(safe_com) \notin inserted.keys
    /\ ~searchSuffix(inserted.trie, reverseDomain(safe_com))

(***************************************************************************)
(* C28: the Bloom pre-filter never changes a verdict.  For every hostname  *)
(* and every dataset held in both structures, whenever none of the label   *)
(* prefixes of the reversed hostname might-contain, trie.searchSuffix on   *)
(* the reversed hostname is false too.                                     *)
(***************************************************************************)
C28_PrefilterNeutral ==
    added.size = 2 * Cardinality(added.keys)
    => \A h \in TrieHosts \cup Hosts :
          ~might(Some(added.bf), Suffixes(reverseDomain(h)))
              => ~searchSuffix(inserted.trie, reverseDomain(h))

(***************************************************************************)
(* C29: the exact check is the same with and without the trie.  For every  *)
(* reversed hostname and every dataset held both in the trie and in the    *)
(* store, trie.searchSuffix(rev) and slowCheck(rev) return the same        *)
(* boolean.                                                                *)
(***************************************************************************)
C29_ExactCheckAgrees ==
    \A h \in TrieHosts :
        LET rev == reverseDomain(h)
        IN searchSuffix(inserted.trie, rev) = slowCheck(inserted.keys, Suffixes(rev))

(***************************************************************************)
(* C30: whenever init has completed and no sync is running, every key in   *)
(* the persistent store is reported as possibly present by the installed   *)
(* Bloom filter, also when the filter was restored from the snapshot and   *)
(* init then forced a full download.                                       *)
(***************************************************************************)
C30_FilterCoversStore ==
    initp.pc = "ready" /\ Running = {}
    => \A k \in idb : bloom # None /\ mightContain(Get(bloom), k)

(***************************************************************************)
(* C31: after every successful sync the size recorded in the meta record   *)
(* equals the number of keys in the store, also when the feed lists a      *)
(* domain on several lines or in different letter case.                    *)
(***************************************************************************)
C31_MetaSizeIsCount ==
    local.meta # None /\ (\A s \in 1..MaxSyncs : syncs[s].pc \in {"free", "finish"})
    => Get(local.meta).size = Cardinality(idb)

(***************************************************************************)
(* C32: a store left partially rewritten by a sync that was interrupted    *)
(* between clearDB and the meta write is always detected at the next       *)
(* start: when init goes on past its count check with no download running, *)
(* the store holds the complete dataset of the last download or the        *)
(* complete dataset that download was to replace.                          *)
(***************************************************************************)
C32_PartialStoreDetected ==
    initp.pc \in {"build", "finish"} /\ Running = {} /\ call # None
    => \/ idb = Range(parseLines(Get(call).text))
       \/ idb = Get(call).store

(***************************************************************************)
(* C33: cache coherence on whitelist removal under interleaving.  Once a   *)
(* removal has completed (its change event delivered too) and no lookup is *)
(* suspended, a cached whitelist snapshot that getFullWhitelist would      *)
(* serve is the built-in set with the stored user whitelist, and the       *)
(* verdict cache holds no "not blocked" entry for a listed domain that is  *)
(* not whitelisted.                                                        *)
(***************************************************************************)
C33_RemovalCoherent ==
    /\ mut.pc = "idle" /\ page.pc = "idle" /\ changed = 0
    /\ query.pc \in {"idle", "done"}
    => /\ cachedWhitelist # None /\ cachedVersion = whitelistVersion
          => Get(cachedWhitelist) = FullWhitelist(local.whitelist)
       /\ \A h \in CacheKeys(DOMAIN_CACHE) :
             /\ ~Whitelisted(h, local.whitelist)
             /\ trie # None /\ searchSuffix(Get(trie), Rev(h))
             => CacheGet(DOMAIN_CACHE, h)

(***************************************************************************)
(* C34: no whitelist mutation is lost.  When mutations overlap, the stored *)
(* user whitelist reflects all of them: a handler's write keeps every      *)
(* stored domain other than the one it removes.                            *)
(***************************************************************************)
C34_NoLostMutation ==
    [][/\ WhitelistWrite
          => Range(local.whitelist) \ (IF mut.action = "removeFromWhitelist"
                                       THEN {mut.arg} ELSE {})
                \subseteq Range(local'.whitelist)
       /\ SettingsWrite
          => Range(local.whitelist) \ (IF page.action = "remove" THEN {page.arg} ELSE {})
                \subseteq Range(local'.whitelist)]_vars

(***************************************************************************)
(* C35: an allow-once override is confined to its exact hostname.  For     *)
(* every hostname g other than h, subdomains and parent domains of h       *)
(* included, and in every state, isDomainBlocked(g) returns the same       *)
(* verdict before and after each step of allowOnce(h); and an              *)
(* isDomainBlocked(h) call answered by a live override returns "not        *)
(* blocked" whatever the verdict cache holds and leaves the cache as it is.*)
(***************************************************************************)
C35_OverrideConfined ==
    [][/\ \A h \in AllowHosts :
             (AllowOnce(h) \/ (AllowOnceDone /\ mut.arg = h))
             => \A g \in Hosts \ {h} :
                   LET full(cw, cv, wv, stored) ==
                          IF cw # None /\ cv = wv THEN Get(cw) ELSE FullWhitelist(stored)
                   IN verdict(g, session', now',
                              full(cachedWhitelist', cachedVersion', whitelistVersion',
                                   local'.whitelist),
                              DOMAIN_CACHE', bloom', trie', idb')
                       = verdict(g, session, now,
                                 full(cachedWhitelist, cachedVersion, whitelistVersion,
                                      local.whitelist),
                                 DOMAIN_CACHE, bloom, trie, idb)
       /\ \A h \in PolicyHosts :
             /\ IsDomainBlocked(h)
             /\ h \in DOMAIN session /\ session[h] # 0 /\ now < session[h]
             => /\ query'.pc = "done" /\ ~query'.res
                /\ DOMAIN_CACHE' = DOMAIN_CACHE]_vars

\* a lookup of the hostname has been answered by its live override while the verdict
\* cache holds "blocked" for it, and "blocked" for a host under it
C35_Witness ==
    /\ query.pc = "done" /\ query.host \in AllowHosts /\ ~query.res
    /\ session[query.host] # 0 /\ now < session[query.host]
    /\ query.host \in CacheKeys(DOMAIN_CACHE) /\ CacheGet(DOMAIN_CACHE, query.host)
    /\ sub_phish1_com \in CacheKeys(DOMAIN_CACHE) /\ CacheGet(DOMAIN_CACHE, sub_phish1_com)

\* the start of the worker with the events that call ensureReady(): installs and
\* startups, navigations and checkDomains messages, and restarts of the worker
NextEnsure ==
    \/ StartUp
    \/ OnInstalled
    \/ \E h \in PolicyHosts : OnBeforeNavigate(h)
    \/ \E h \in PolicyHosts : query.pc = "await" /\ IsDomainBlocked(h)
    \/ WhitelistLoaded \/ SlowChecked
    \/ Restart

SpecEnsure == Init /\ [][NextEnsure]_vars

(***************************************************************************)
(* C36: initialization runs at most once per life of the worker: however   *)
(* many onInstalled/onStartup events, navigations and messages call        *)
(* ensureReady, init is started once, and no navigation or checkDomains    *)
(* verdict is computed before that init run has completed.                 *)
(***************************************************************************)
C36_InitOnce ==
    /\ initp.inits = 1
    /\ query.pc \notin {"idle", "await"} => initp.pc = "ready"

\* in the second life of the worker a navigation has got the verdict "blocked" after
\* three more calls of ensureReady() than the one made at load
C36_Witness ==
    /\ query.pc = "done" /\ query.res
    /\ initp.calls = 4 /\ initp.inits = 1 /\ initp.boots = 2

\* downloads and transactions that fail during the start and during the retries, as
\* long as the timer of the failure falls within the horizon of the clock; every step
\* the code can take by itself is taken at some time: the continuations, the arrival
\* of a download, the clock reaching a timer, the timer callback
NextRecover ==
    \/ StartUp
    \/ \E s \in 1..MaxSyncs :
          /\ now + 2 * fetchRetryDelay <= StartTime + MaxTimerMinutes * Minute
          /\ FetchFail(s)
    \/ \E s \in 1..MaxSyncs : TxFail(s)
    \/ RetryTimer
    \/ TickToTimer

SpecRecover ==
    /\ Init /\ [][NextRecover]_vars
    /\ WF_vars(Continuations)
    /\ WF_vars(\E s \in 1..MaxSyncs : FetchOk(s))
    /\ WF_vars(TickToTimer) /\ WF_vars(RetryTimer)

(***************************************************************************)
(* C37: recovery is live.  If from some point on no download and no store  *)
(* transaction fails, then after any failed sync (one whose download       *)
(* failed, or one whose transaction failed) the system eventually is in    *)
(* the ready state, no sync running, no retry pending, with the store and  *)
(* the meta record holding the dataset of the last download.               *)
(***************************************************************************)
C37_RecoveryLive ==
    <>[][~(\E s \in 1..MaxSyncs : FetchFail(s) \/ TxFail(s))]_vars
    => ((syncHist.fails > 0 \/ \E s \in 1..MaxSyncs : syncs[s].pc = "failed")
          ~> (/\ initp.pc = "ready" /\ Running = {} /\ timers = <<>>
              /\ syncHist.domains # None
              /\ idb = Range(Get(syncHist.domains))
              /\ local.meta # None
              /\ Get(local.meta).size = Len(Get(syncHist.domains))))

(***************************************************************************)
(* C38: the backoff counts consecutive failures only.  A failed sync that  *)
(* is the first failure since the load or since the last successful sync   *)
(* schedules its retry with the initial delay: the nominal 5 minutes, or   *)
(* the 10 minutes the catch block gives the first failure after a load     *)
(* (C13), and not a delay reached by failures that came before the         *)
(* success.                                                                *)
(***************************************************************************)
C38_BackoffResets ==
    [][syncHist.fails = 0 /\ syncHist'.fails = 1
       => \E d \in {INITIAL_RETRY_DELAY, 2 * INITIAL_RETRY_DELAY} :
             timers' = SortedInsert(timers, now + d)]_vars

(***************************************************************************)
(* C39: at any time at most one sync retry timer is pending, whichever     *)
(* syncs have failed (those of init, of the alarm, of a manual refresh or  *)
(* of an earlier retry).                                                   *)
(***************************************************************************)
C39_OneRetryTimer == Len(timers) <= 1

(***************************************************************************)
(* C40: a verdict cached before a sync does not outlive the dataset it was *)
(* computed from.  When a sync has completed, the store holds its dataset, *)
(* a domain d of the dataset is the hostname looked up or a parent of it,  *)
(* and the structures reflect d (the filter answers "maybe" and the trie,  *)
(* if there is one, has d), an isDomainBlocked call that completes returns *)
(* "blocked", never a "not blocked" that the cache has kept from before.   *)
(***************************************************************************)
C40_NoStaleVerdict ==
    [][/\ (\E h \in SyncHosts : IsDomainBlocked(h)) \/ WhitelistLoaded \/ SlowChecked
       /\ query'.pc = "done"
       /\ Running = {} /\ syncHist.domains # None
       /\ idb = Range(Get(syncHist.domains))
       /\ slowCheck(idb, SuffixesOf(query'.host))
       /\ might(bloom, SuffixesOf(query'.host))
       /\ trie # None => searchSuffix(Get(trie), Rev(query'.host))
       => query'.res]_vars

====
